---- MODULE Spec2Model ----
(***************************************************************************)
(* PulseExtractionLogic (src/logic/pulse_extraction_logic.py): extraction  *)
(* of laser pulses from the raw time trace of a fast counter.              *)
(*                                                                         *)
(* Arrays are TLA+ sequences; the source's 0-based index k is position     *)
(* k + 1 of the sequence.  Index values kept in the state (rising_ind,     *)
(* falling_ind) are the source's 0-based indices.                          *)
(***************************************************************************)
EXTENDS Integers, Sequences, FiniteSets, TLC

(* ------------------------------------------------------------------ *)
(* Bounds of the model                                                *)
(* ------------------------------------------------------------------ *)

\* num_of_lasers is configured to 1..MaxLasers (next to its default)
MaxLasers == 2

\* gated raw data has 1..MaxRows rows
MaxRows == 2

\* get_data_laserpulses calls counted per activation
MaxCalls == 2

(* ------------------------------------------------------------------ *)
(* Program constants                                                  *)
(* ------------------------------------------------------------------ *)

\* self.num_of_lasers = 100
DefaultNumOfLasers == 100

\* self.conv_std_dev = 20
DefaultConvStdDev == 20

\* conv_deriv[ind-100:ind+100] = 0
ExclusionHalfWidth == 100

(* ------------------------------------------------------------------ *)
(* Python / numpy primitives used by the source                       *)
(* ------------------------------------------------------------------ *)

Min(a, b) == IF a < b THEN a ELSE b

Max(a, b) == IF a > b THEN a ELSE b

\* A slice bound of an array of length n as Python resolves it: a negative
\* bound counts from the end, and every bound is clipped into 0..n.
PyBound(n, b) == IF b < 0 THEN Max(0, b + n) ELSE Min(b, n)

\* a[start:stop], as a sequence (empty when the resolved bounds cross)
PySlice(a, start, stop) ==
    LET lo == PyBound(Len(a), start)
        hi == PyBound(Len(a), stop)
    IN  IF lo < hi THEN SubSeq(a, lo + 1, hi) ELSE <<>>

\* a[start:stop] = 0 : the array after the slice assignment
PyZeroSlice(a, start, stop) ==
    LET lo == PyBound(Len(a), start)
        hi == PyBound(Len(a), stop)
    IN  [p \in 1..Len(a) |-> IF lo <= p - 1 /\ p - 1 < hi THEN 0 ELSE a[p]]

\* the values of an array
Values(a) == {a[p] : p \in 1..Len(a)}

\* np.max of a non-empty array
SeqMax(a) == CHOOSE v \in Values(a) : \A w \in Values(a) : w <= v

\* np.min of a non-empty array
SeqMin(a) == CHOOSE v \in Values(a) : \A w \in Values(a) : v <= w

\* the 0-based index of the first occurrence of value v in a
FirstIndexOf(a, v) ==
    (CHOOSE p \in 1..Len(a) : a[p] = v /\ \A q \in 1..(p - 1) : a[q] # v) - 1

\* np.argmax: the 0-based index of the first occurrence of the maximum
ArgMax(a) == FirstIndexOf(a, SeqMax(a))

\* np.argmin: the 0-based index of the first occurrence of the minimum
ArgMin(a) == FirstIndexOf(a, SeqMin(a))

\* ndarray.sort(): the entries in ascending order.  rank[j] is the place
\* entry j takes: after every smaller entry and every equal entry before it.
SortAsc(s) ==
    LET n == Len(s)
        rank == [j \in 1..n |->
                    Cardinality({i \in 1..n :
                                    s[i] < s[j] \/ (s[i] = s[j] /\ i < j)}) + 1]
    IN  [k \in 1..n |-> s[CHOOSE j \in 1..n : rank[j] = k]]

RECURSIVE SumRange(_, _, _)
\* f[lo] + ... + f[hi]
SumRange(f, lo, hi) ==
    IF lo > hi THEN 0
    ELSE IF lo = hi THEN f[lo]
    ELSE SumRange(f, lo, (lo + hi) \div 2) + SumRange(f, (lo + hi) \div 2 + 1, hi)

(* ------------------------------------------------------------------ *)
(* convolve_derive                                                    *)
(* ------------------------------------------------------------------ *)

\* The weights exp(-x^2 / (2 sd^2)), x = 0..int(4 sd + 0.5), of
\* gaussian_filter1d in fixed point (parts per million of the kernel's sum;
\* the library computes them in double precision).
GaussianKernel(sd) ==
    CASE sd = 1 -> <<398944, 241971, 53991, 4432, 134>>
      [] sd = 20 ->
         <<19940, 19923, 19849, 19725, 19553, 19335, 19070, 18763, 18415, 18027,
           17604, 17148, 16662, 16150, 15614, 15058, 14485, 13900, 13305, 12704,
           12099, 11495, 10893, 10297, 9710, 9133, 8569, 8020, 7487, 6972,
           6476, 6001, 5546, 5114, 4703, 4314, 3948, 3603, 3281, 2980,
           2700, 2440, 2199, 1978, 1774, 1587, 1416, 1261, 1120, 992,
           876, 773, 679, 596, 521, 455, 396, 344, 298, 257,
           222, 190, 163, 140, 119, 101, 86, 73, 62, 52,
           44, 37, 31, 26, 21, 18, 15, 12, 10, 8, 7>>

\* the smoothing widths the model configures
StdDevs == {1, DefaultConvStdDev}

\* mode 'reflect' of scipy.ndimage: (d c b a | a b c d | d c b a);
\* the 0-based index inside 0..n-1 that index k of the extended line reads
Reflect(n, k) ==
    LET m == k % (2 * n)
    IN  IF m < n THEN m ELSE 2 * n - 1 - m

\* ndimage.filters.gaussian_filter1d(timetrace, std_dev) on an integer
\* array: the correlation with the normalised kernel, stored back into
\* the integer dtype of the input (truncated).
gaussian_filter1d(timetrace, std_dev) ==
    LET w == GaussianKernel(std_dev)
        r == Len(w) - 1
        n == Len(timetrace)
        total == w[1] + 2 * SumRange(w, 2, r + 1)
        term(p) == [j \in 0..(2 * r) |->
                      w[(IF j < r THEN r - j ELSE j - r) + 1]
                      * timetrace[Reflect(n, p - 1 + j - r) + 1]]
    IN  [p \in 1..n |-> SumRange(term(p), 0, 2 * r) \div total]

\* np.gradient of a 1-D array with at least two entries, times two (central
\* differences are halves; the factor keeps them integers and changes
\* neither the order of the entries nor which of them are zero)
gradient(conv) ==
    LET n == Len(conv)
    IN  [p \in 1..n |->
            IF p = 1 THEN 2 * (conv[2] - conv[1])
            ELSE IF p = n THEN 2 * (conv[n] - conv[n - 1])
            ELSE conv[p + 1] - conv[p - 1]]

\* np.gradient raises ValueError on an array with fewer than two entries
GradientRaises(timetrace) == Len(timetrace) < 2

\* convolve_derive returns the one array conv_deriv
convolve_derive(timetrace, std_dev) ==
    gradient(gaussian_filter1d(timetrace, std_dev))

(* ------------------------------------------------------------------ *)
(* Raw data delivered by the fast counter                             *)
(* ------------------------------------------------------------------ *)

\* A trace of n samples: a flat baseline plus rectangular plateaus, each
\* <<first, stop, height>> covering the 0-based samples first..stop-1.
Rect(n, base, plateaus) ==
    [p \in 1..n |->
        base + SumRange([q \in 1..Len(plateaus) |->
                            IF plateaus[q][1] <= p - 1 /\ p - 1 < plateaus[q][2]
                            THEN plateaus[q][3] ELSE 0],
                        1, Len(plateaus))]

\* all-zero trace of 50 samples
TrZero == Rect(50, 0, <<>>)

\* a trace shorter than twice the default smoothing width
TrShort == Rect(30, 10, << <<10, 20, 90>> >>)

\* one pulse whose rising edge lies less than 100 samples from the start
TrEarly == Rect(300, 10, << <<50, 180, 90>> >>)

\* one pulse whose falling edge lies less than 100 samples from the end
TrLate == Rect(300, 10, << <<150, 250, 90>> >>)

\* two pulses, each longer than 100 samples, all edges more than 100
\* samples from each other and from both ends
TrTwo == Rect(600, 10, << <<110, 250, 90>>, <<370, 500, 80>> >>)

\* two falling edges after a pulse, and a step up in the last sample
TrEnd == Rect(600, 0, << <<0, 400, 20>>, <<120, 260, 50>>, <<599, 600, 100>> >>)

\* a trace of one sample
TrOne == <<5>>

\* what get_data() delivers from an ungated counter: one 1-D trace
UngatedTraces == {TrOne, TrZero, TrShort, TrEarly, TrLate, TrTwo, TrEnd}

\* one gate repetition: a pulse on a baseline
TrGate == Rect(300, 10, << <<100, 200, 90>> >>)

\* a gate repetition of two samples
TrPair == <<3, 7>>

\* rows of a gated acquisition: the repetition, row q raised by q - 1 counts
GatedRows(tr, R) == [q \in 1..R |-> [p \in 1..Len(tr) |-> tr[p] + q - 1]]

\* what get_data() delivers from a gated counter: a 2-D array, rows x bins
GatedArrays == {GatedRows(tr, R) : tr \in {TrGate, TrPair}, R \in 1..MaxRows}

\* an empty 1-D trace
TrEmpty == <<>>

\* Scenario B of the specification: 3000 samples, three plateaus of 200
\* samples starting at 100, 1100 and 2100 on a flat baseline
ScenarioB(base, height) ==
    Rect(3000, base, << <<100, 300, height>>, <<1100, 1300, height>>,
                        <<2100, 2300, height>> >>)

\* A numpy array as get_data() hands it over: its shape, its dtype and its
\* entries (a 1-D array is a sequence, a 2-D array a sequence of rows).
Array1(tr) == [shape |-> <<Len(tr)>>, dtype |-> "int", values |-> tr]

\* a 2-D array of the given rows, each of the given number of bins
Array2(rows, bins) ==
    [shape |-> <<Len(rows), bins>>, dtype |-> "int", values |-> rows]

\* rows of unequal lengths cannot form a 2-D array: numpy holds them as a
\* 1-D array of dtype object whose entries are the rows
Ragged(rows) == [shape |-> <<Len(rows)>>, dtype |-> "object", values |-> rows]

\* 2-D arrays without entries: no rows of two bins, and rows of no bins
EmptyArrays ==
    {Array2(<<>>, 2)} \cup {Array2([q \in 1..R |-> <<>>], 0) : R \in 1..MaxRows}

\* rows of unequal lengths
RaggedArrays == {Ragged(<<TrPair, <<>> >>), Ragged(<<TrPair, <<4>> >>)}

\* What get_data() delivers while the counter's own gating state is
\* `gated`: 2-D data from a gated counter, a 1-D trace from an ungated one.
Deliveries(gated) ==
    IF gated
    THEN {Array2(rows, Len(rows[1])) : rows \in GatedArrays}
         \cup EmptyArrays \cup RaggedArrays
    ELSE {Array1(tr) : tr \in UngatedTraces \cup {TrEmpty}}

(* ------------------------------------------------------------------ *)
(* State                                                              *)
(* ------------------------------------------------------------------ *)

VARIABLES
    is_counter_gated,   \* self.is_counter_gated
    num_of_lasers,      \* self.num_of_lasers
    conv_std_dev,       \* self.conv_std_dev
    pc,                 \* position of the running get_data_laserpulses call
    raw_data,           \* raw_data / count_data of the running call
    conv_deriv,         \* the call's working gradient array
    rising_ind,         \* rising indices found so far (sorted at line 82)
    falling_ind,        \* falling indices found so far (sorted at line 83)
    laser_length,       \* laser_length (line 84)
    laser_arr,          \* the array the call returns
    outcome,            \* "none", "returned" or "raised"
    raw_shape,          \* raw_data.shape
    raw_dtype,          \* raw_data.dtype
    fc_gated,           \* the counter's own gating state when last queried
    route,              \* the extraction the running call dispatched to
    call_log,           \* the calls the running or last handler has made
    delivered,          \* the entries of raw_data as get_data() handed them over
    gated_at_activation,\* what is_gated() returned at the latest activation
    result_is_view,     \* laser_arr is a view into the storage of raw_data
    written             \* the array the caller wrote into after the call

\* the attributes of the module
config == <<is_counter_gated, num_of_lasers, conv_std_dev>>

\* the array get_data() delivered
raw == <<raw_data, raw_shape, raw_dtype, delivered>>

\* the locals of the extraction, and what the call gives back
frame == <<conv_deriv, rising_ind, falling_ind, laser_length, laser_arr,
           outcome, result_is_view>>

\* the state of the pulse extraction module, its counter and its caller
extraction_vars ==
    <<config, pc, raw, frame, fc_gated, route, call_log, gated_at_activation,
      written>>

\* the values num_of_lasers takes
LaserCounts == (1..MaxLasers) \cup {DefaultNumOfLasers}

\* the module between calls, never activated, with the given values of
\* its two public attributes
Constructed(lasers, std_dev) ==
    /\ is_counter_gated = FALSE
    /\ num_of_lasers = lasers
    /\ conv_std_dev = std_dev
    /\ pc = "idle"
    /\ raw_data = <<>>
    /\ conv_deriv = <<>>
    /\ rising_ind = <<>>
    /\ falling_ind = <<>>
    /\ laser_length = 0
    /\ laser_arr = <<>>
    /\ outcome = "none"
    /\ raw_shape = <<>>
    /\ raw_dtype = "none"
    /\ fc_gated \in BOOLEAN
    /\ route = "none"
    /\ call_log = <<>>
    /\ delivered = <<>>
    /\ gated_at_activation = FALSE
    /\ result_is_view = FALSE
    /\ written = "none"

\* __init__ (lines 44-46); no call is running
ExtractionInit == Constructed(DefaultNumOfLasers, DefaultConvStdDev)

\* the locals of a call that has not reached them yet
NoLocals ==
    /\ conv_deriv' = <<>>
    /\ rising_ind' = <<>>
    /\ falling_ind' = <<>>
    /\ laser_length' = 0
    /\ laser_arr' = <<>>
    /\ result_is_view' = FALSE

\* the call ends with an exception: nothing is returned
Raises ==
    /\ pc' = "done"
    /\ outcome' = "raised"
    /\ NoLocals

(* ------------------------------------------------------------------ *)
(* Operations                                                         *)
(* ------------------------------------------------------------------ *)

\* activation -> _check_if_counter_gated: is_gated() is asked once and its
\* answer, the counter's gating state of that moment, is kept in the flag
activation ==
    /\ pc = "idle"
    /\ \E gated \in BOOLEAN :
          /\ fc_gated' = gated
          /\ is_counter_gated' = gated
          /\ gated_at_activation' = gated
    /\ call_log' = <<"is_gated">>
    /\ UNCHANGED <<num_of_lasers, conv_std_dev, pc, raw, frame, route, written>>

\* the owner of the module assigns the public attributes num_of_lasers and
\* conv_std_dev between calls
ConfigureTo(counts) ==
    /\ pc = "idle"
    /\ \E n \in counts, sd \in StdDevs :
          /\ num_of_lasers' = n
          /\ conv_std_dev' = sd
    /\ UNCHANGED <<is_counter_gated, pc, raw, frame, fc_gated, route, call_log,
                   gated_at_activation, written>>

\* the attributes assigned any value the model has for them
Configure == ConfigureTo(LaserCounts)

\* np.sum(count_data, 0): the element-wise sum of the rows
timetrace_sum(count_data) ==
    [p \in 1..Len(count_data[1]) |->
        SumRange([q \in 1..Len(count_data) |-> count_data[q][p]],
                 1, Len(count_data))]

RECURSIVE Concat(_, _)
\* rows[1] + ... + rows[upto] of Python lists: their concatenation
Concat(rows, upto) ==
    IF upto = 0 THEN <<>> ELSE Concat(rows, upto - 1) \o rows[upto]

\* np.sum(count_data, 0) of a 1-D array of numbers is a scalar, and
\* gaussian_filter1d raises on a scalar (it has no axis to filter along)
SumIsScalar(array) == Len(array.shape) = 1 /\ array.dtype = "int"

\* np.sum(count_data, 0) of any other array: the sum of the rows of a 2-D
\* array (zeros when it has no rows), and the sum of the entries of an
\* object array, which are lists and add up to their concatenation
SumOverRows(array) ==
    IF array.dtype = "object" THEN Concat(array.values, Len(array.values))
    ELSE IF array.shape[1] = 0 THEN [p \in 1..array.shape[2] |-> 0]
    ELSE timetrace_sum(array.values)

\* the traces convolve_derive is called with: the 1-D traces and the row
\* sums of the 2-D arrays the counter delivers, two samples or longer
ConvolvedTraces ==
    {tr \in UngatedTraces : ~GradientRaises(tr)}
    \cup {SumOverRows(array) :
            array \in {d \in Deliveries(TRUE) : ~GradientRaises(SumOverRows(d))}}

\* convolve_derive of each of these traces under each smoothing width,
\* evaluated once
ConvolveDerive ==
    [tr \in ConvolvedTraces |-> [sd \in StdDevs |-> convolve_derive(tr, sd)]]

\* "conv_deriv, conv = self.convolve_derive(...)": convolve_derive returns
\* one array, and unpacking an array into two names raises ValueError
\* unless the array has exactly two entries
UnpackRaises(returned) == Len(returned) # 2

\* the name conv_deriv after the unpacking: entry 0 of the gradient, a
\* numpy scalar (argmax and argmin of a scalar are 0)
UnpackedConvDeriv(returned) == <<returned[1]>>

\* count_data[:, rising:falling] raises IndexError unless count_data has
\* two dimensions
ColumnSliceRaises(array) == Len(array.shape) # 2

\* count_data[:, rising:falling]
SliceColumns(count_data, rising, falling) ==
    [q \in 1..Len(count_data) |-> PySlice(count_data[q], rising, falling)]

\* the dispatch if it asked the counter for its gating state at every call
RouteRequeried(flag, now) == IF now THEN "gated" ELSE "ungated"

\* "if self.is_counter_gated" (line 101): the extraction a call dispatches
\* to, given the flag and the gating state the counter has now
Route(flag, now) == IF flag THEN "gated" ELSE "ungated"

\* the calls made if a failing call were tried once more before it raises
CallLogWithRetry(calls, failed) == IF failed THEN calls \o calls ELSE calls

\* the calls made if every call asked the counter for its gating state first
CallLogAskingGate(calls, failed) == <<"is_gated">> \o calls

\* The calls a get_data_laserpulses call has made when it ends: no except
\* clause or loop around lines 100-104 makes any of them again after a
\* failure.
CallLog(calls, failed) == calls

\* get_data() hands over the array; the call keeps a reference to it
GetData(array) ==
    /\ raw_data' = array.values
    /\ raw_shape' = array.shape
    /\ raw_dtype' = array.dtype
    /\ delivered' = array.values

\* get_data_laserpulses dispatching to _gated_extraction: get_data(), then
\* the extraction up to its return or its exception
GatedCall ==
    /\ pc = "idle"
    /\ \E now \in BOOLEAN :
       \E array \in Deliveries(now) :
          /\ Route(is_counter_gated, now) = "gated"
          /\ fc_gated' = now
          /\ GetData(array)
          /\ route' = "gated"
          /\ IF SumIsScalar(array)
             THEN Raises
             ELSE \E summed \in {SumOverRows(array)} :
                  IF GradientRaises(summed)
                  THEN Raises
                  ELSE \E returned \in {ConvolveDerive[summed][conv_std_dev]} :
                       IF UnpackRaises(returned) \/ ColumnSliceRaises(array)
                       THEN Raises
                       ELSE \E deriv \in {UnpackedConvDeriv(returned)} :
                            /\ pc' = "done"
                            /\ outcome' = "returned"
                            /\ laser_length' = 0
                            /\ conv_deriv' = deriv
                            /\ rising_ind' = <<ArgMax(deriv)>>
                            /\ falling_ind' = <<ArgMin(deriv)>>
                            /\ laser_arr' = SliceColumns(array.values,
                                                ArgMax(deriv), ArgMin(deriv))
                            /\ result_is_view' = TRUE
    /\ call_log' = CallLog(<<"get_data", "_gated_extraction">>,
                           outcome' = "raised")
    /\ UNCHANGED <<config, gated_at_activation, written>>

\* On anything but a 1-D array of numbers the ungated extraction raises
\* before it has an index: gaussian_filter1d rejects dtype object, and the
\* gradient of a 2-D array is a list of two arrays (ValueError if an axis
\* has fewer than two entries), into which line 79 cannot assign 0.
UngatedRaisesOnArray(array) == Len(array.shape) # 1 \/ array.dtype # "int"

\* self.convolve_derive(count_data, self.conv_std_dev), looked up
TableDerive(timetrace, std_dev) == ConvolveDerive[timetrace][std_dev]

\* get_data_laserpulses dispatching to _ungated_extraction: get_data(),
\* then the extraction up to the head of its first loop (lines 74-76); the
\* counter, in gating state `now`, delivers one of the given arrays, and
\* convolve_derive is looked up in the table or computed
UngatedCallWith(now, arrays, looked_up) ==
    /\ pc = "idle"
    /\ \E array \in arrays :
          /\ Route(is_counter_gated, now) = "ungated"
          /\ fc_gated' = now
          /\ GetData(array)
          /\ route' = "ungated"
          /\ IF UngatedRaisesOnArray(array) \/ GradientRaises(array.values)
             THEN Raises
             ELSE /\ pc' = "rising"
                  /\ outcome' = "none"
                  /\ conv_deriv' =
                         IF looked_up
                         THEN TableDerive(array.values, conv_std_dev)
                         ELSE convolve_derive(array.values, conv_std_dev)
                  /\ rising_ind' = <<>>
                  /\ falling_ind' = <<>>
                  /\ laser_length' = 0
                  /\ laser_arr' = <<>>
                  /\ result_is_view' = FALSE
    /\ call_log' = CallLog(<<"get_data", "_ungated_extraction">>,
                           outcome' = "raised")
    /\ UNCHANGED <<config, gated_at_activation, written>>

\* the call on any array the counter delivers in its gating state
UngatedCall ==
    \E now \in BOOLEAN : UngatedCallWith(now, Deliveries(now), TRUE)

\* get_data() raises: nothing catches the exception, so the call ends with
\* it before the dispatch
GetDataRaises ==
    /\ pc = "idle"
    /\ Raises
    /\ call_log' = CallLog(<<"get_data">>, outcome' = "raised")
    /\ UNCHANGED <<config, raw, fc_gated, route, gated_at_activation, written>>

\* conv_deriv[ind-100:ind+100] = 0
ZeroWindow(deriv, ind) ==
    PyZeroSlice(deriv, ind - ExclusionHalfWidth, ind + ExclusionHalfWidth)

\* count_data after the assignment if the working array were count_data
\* itself instead of an array of its own
DataAfterZeroingShared(count_data, ind) == ZeroWindow(count_data, ind)

\* count_data after "conv_deriv[...] = 0": conv_deriv is the array
\* np.gradient allocated (line 93), so the assignment reaches no entry of
\* count_data
DataAfterZeroing(count_data, ind) == count_data

\* lines 78-79: the next rising flank and its exclusion window
RisingStep ==
    /\ pc = "rising"
    /\ \E ind \in {ArgMax(conv_deriv)} :
          /\ rising_ind' = Append(rising_ind, ind)
          /\ conv_deriv' = ZeroWindow(conv_deriv, ind)
          /\ raw_data' = DataAfterZeroing(raw_data, ind)
    /\ pc' = "falling"
    /\ UNCHANGED <<config, raw_shape, raw_dtype, delivered, falling_ind,
                   laser_length, laser_arr, outcome, result_is_view, fc_gated,
                   route, call_log, gated_at_activation, written>>

\* the loop leaving its last round out
LoopRoundsButOne(n) == n - 1

\* "for i in range(self.num_of_lasers)": the rounds of the detection loop
LoopRounds(n) == n

\* lines 80-81: the next falling flank and its exclusion window; the loop
\* ends after num_of_lasers rounds
FallingStep ==
    /\ pc = "falling"
    /\ \E ind \in {ArgMin(conv_deriv)} :
          /\ falling_ind' = Append(falling_ind, ind)
          /\ conv_deriv' = ZeroWindow(conv_deriv, ind)
          /\ raw_data' = DataAfterZeroing(raw_data, ind)
    /\ pc' = IF Len(falling_ind) + 1 < LoopRounds(num_of_lasers)
             THEN "rising" ELSE "slice"
    /\ UNCHANGED <<config, raw_shape, raw_dtype, delivered, rising_ind,
                   laser_length, laser_arr, outcome, result_is_view, fc_gated,
                   route, call_log, gated_at_activation, written>>

\* the uniform length taken as the shortest interval instead of the longest
UniformLengthShortest(rising, falling) ==
    SeqMin([q \in 1..Len(rising) |-> falling[q] - rising[q]])

\* np.max(falling_ind - rising_ind)
UniformLength(rising, falling) ==
    SeqMax([q \in 1..Len(rising) |-> falling[q] - rising[q]])

\* "laser_arr[i] = value" for a row of the given length: numpy copies a
\* value of that length, repeats a value of length one, and raises
\* ValueError for any other
RowAssignRaises(value, length) == Len(value) # length /\ Len(value) # 1

\* the row after the assignment
RowAssigned(value, length) ==
    IF Len(value) = length THEN value ELSE [p \in 1..length |-> value[1]]

\* the rows of the result kept as the slices of count_data themselves
RowsKeptAsSlices == TRUE

\* laser_arr is allocated by np.zeros (line 85) and "laser_arr[i] = ..."
\* copies the entries of the slice into it: it shares no storage
FilledRowsShareStorage == FALSE

\* what an entry of an np.empty array holds until it is assigned: whatever
\* the memory held
LeftoverValues == {0, 250}

\* the entries np.empty([num_of_lasers], int) (lines 75-76) still holds
\* unassigned when the loop has filled the first `assigned` of them
Unassigned(assigned) == [1..(num_of_lasers - assigned) -> LeftoverValues]

\* lines 82-88: both index arrays are sorted, the uniform length is taken,
\* the result array is allocated (np.zeros raises ValueError on a negative
\* dimension) and filled row by row
SliceStep ==
    /\ pc = "slice"
    /\ \E rest_r \in Unassigned(Len(rising_ind)),
          rest_f \in Unassigned(Len(falling_ind)) :
       \E rising \in {SortAsc(rising_ind \o rest_r)},
          falling \in {SortAsc(falling_ind \o rest_f)} :
       \E length \in {UniformLength(rising, falling)} :
       \E value \in {[q \in 1..num_of_lasers |->
                         PySlice(raw_data, rising[q], rising[q] + length)]} :
          /\ rising_ind' = rising
          /\ falling_ind' = falling
          /\ laser_length' = length
          /\ IF length < 0
                \/ \E q \in 1..num_of_lasers : RowAssignRaises(value[q], length)
             THEN /\ outcome' = "raised"
                  /\ laser_arr' = <<>>
                  /\ result_is_view' = FALSE
             ELSE /\ outcome' = "returned"
                  /\ laser_arr' = [q \in 1..num_of_lasers |->
                                      RowAssigned(value[q], length)]
                  /\ result_is_view' = FilledRowsShareStorage
    /\ pc' = "done"
    /\ call_log' = CallLog(call_log, outcome' = "raised")
    /\ UNCHANGED <<config, raw, conv_deriv, fc_gated, route,
                   gated_at_activation, written>>

\* the entry of raw_data that entry j of row q of a returned view reads
\* (positions count from 1): column rising + j of row q of gated data,
\* sample rising_q + j of an ungated trace
ViewSource(q, j) ==
    IF route = "gated" THEN <<q, rising_ind[1] + j>> ELSE <<rising_ind[q] + j>>

\* the entries of raw_data the caller writes to: the first bin of every row
\* of gated data, the first sample of every segment of an ungated trace
RawSpots ==
    IF route = "gated"
    THEN {<<q, 1>> : q \in 1..raw_shape[1]}
    ELSE {<<rising_ind[q] + 1>> :
            q \in {i \in 1..Len(rising_ind) : rising_ind[i] < Len(raw_data)}}

\* the entry of an array at a position
EntryAt(array, pos) ==
    IF Len(pos) = 2 THEN array[pos[1]][pos[2]] ELSE array[pos[1]]

\* the array with one entry replaced
WithEntry(array, pos, v) ==
    IF Len(pos) = 2
    THEN [array EXCEPT ![pos[1]] = [array[pos[1]] EXCEPT ![pos[2]] = v]]
    ELSE [array EXCEPT ![pos[1]] = v]

\* after the call has returned, its caller writes into the raw data array:
\* a view into that array shows the new entry, a copy does not
WriteRawData ==
    /\ pc = "done"
    /\ outcome = "returned"
    /\ written = "none"
    /\ \E pos \in RawSpots :
       \E v \in {EntryAt(raw_data, pos) + 1} :
          /\ raw_data' = WithEntry(raw_data, pos, v)
          /\ laser_arr' = [q \in 1..Len(laser_arr) |->
                              [j \in 1..Len(laser_arr[q]) |->
                                  IF result_is_view /\ ViewSource(q, j) = pos
                                  THEN v ELSE laser_arr[q][j]]]
    /\ written' = "raw"
    /\ UNCHANGED <<config, pc, raw_shape, raw_dtype, delivered, conv_deriv,
                   rising_ind, falling_ind, laser_length, outcome,
                   result_is_view, fc_gated, route, call_log,
                   gated_at_activation>>

\* after the call has returned, its caller writes into the returned array:
\* through a view the write lands in the raw data array
WriteResult ==
    /\ pc = "done"
    /\ outcome = "returned"
    /\ written = "none"
    /\ \E q \in {1, Len(laser_arr)} :
          /\ q \in 1..Len(laser_arr)
          /\ Len(laser_arr[q]) > 0
          /\ \E v \in {laser_arr[q][1] + 1} :
                /\ laser_arr' = WithEntry(laser_arr, <<q, 1>>, v)
                /\ raw_data' = IF result_is_view
                               THEN WithEntry(raw_data, ViewSource(q, 1), v)
                               ELSE raw_data
    /\ written' = "result"
    /\ UNCHANGED <<config, pc, raw_shape, raw_dtype, delivered, conv_deriv,
                   rising_ind, falling_ind, laser_length, outcome,
                   result_is_view, fc_gated, route, call_log,
                   gated_at_activation>>

\* the caller is done with the result, or with the exception
Return ==
    /\ pc = "done"
    /\ pc' = "idle"
    /\ raw_data' = <<>>
    /\ raw_shape' = <<>>
    /\ raw_dtype' = "none"
    /\ delivered' = <<>>
    /\ outcome' = "none"
    /\ route' = "none"
    /\ call_log' = <<>>
    /\ written' = "none"
    /\ NoLocals
    /\ UNCHANGED <<config, fc_gated, gated_at_activation>>

\* a step of the pulse extraction module, its counter or its caller
ExtractionNext ==
    \/ activation
    \/ Configure
    \/ GatedCall
    \/ UngatedCall
    \/ GetDataRaises
    \/ RisingStep
    \/ FallingStep
    \/ SliceStep
    \/ WriteRawData
    \/ WriteResult
    \/ Return

(* ------------------------------------------------------------------ *)
(* Calls of the counter's methods, counted                            *)
(* ------------------------------------------------------------------ *)

VARIABLES
    activations,        \* 1 once activation has run, else 0
    calls_made,         \* get_data_laserpulses calls since the activation
    is_gated_calls,     \* is_gated() calls, from the activation on
    get_data_calls      \* get_data() calls since the activation

tally == <<activations, calls_made, is_gated_calls, get_data_calls>>

\* nothing has been called at construction
TallyInit ==
    /\ activations = 0
    /\ calls_made = 0
    /\ is_gated_calls = 0
    /\ get_data_calls = 0

\* the number of entries of a call log that name the given method
CountIn(log, name) == Cardinality({p \in 1..Len(log) : log[p] = name})

\* an activation starts the count anew with the calls it makes itself
TallyActivation ==
    /\ activations' = 1
    /\ calls_made' = 0
    /\ is_gated_calls' = CountIn(call_log', "is_gated")
    /\ get_data_calls' = CountIn(call_log', "get_data")

\* a get_data_laserpulses call begins: the calls it has logged are added
TallyCall ==
    /\ calls_made' = calls_made + 1
    /\ is_gated_calls' = is_gated_calls + CountIn(call_log', "is_gated")
    /\ get_data_calls' = get_data_calls + CountIn(call_log', "get_data")
    /\ UNCHANGED activations

\* a later step of the call: the calls it logs on top are added
TallyStep ==
    /\ is_gated_calls' = is_gated_calls + CountIn(call_log', "is_gated")
                                        - CountIn(call_log, "is_gated")
    /\ get_data_calls' = get_data_calls + CountIn(call_log', "get_data")
                                        - CountIn(call_log, "get_data")
    /\ UNCHANGED <<activations, calls_made>>

\* the counted runs make at most MaxCalls calls per activation
CallsLeft == calls_made < MaxCalls

(* ------------------------------------------------------------------ *)
(* An earlier call, kept for comparison                               *)
(* ------------------------------------------------------------------ *)

VARIABLES
    remembered          \* <<>> or one ended call: its input and what it gave

\* the calls that are kept: those on these arrays
RecallArrays ==
    {Array1(TrEarly), Array1(TrTwo), Array2(GatedRows(TrPair, 1), 2)}

\* the array the running call got from get_data()
RawArray == [shape |-> raw_shape, dtype |-> raw_dtype, values |-> raw_data]

\* the call that has just ended is kept, once per run, with its raw data,
\* the attributes it ran under, and its result or exception
Remember ==
    /\ pc = "done"
    /\ written = "none"
    /\ route # "none"
    /\ remembered = <<>>
    /\ RawArray \in RecallArrays
    /\ remembered' = <<[array |-> RawArray, attributes |-> config,
                        outcome |-> outcome, result |-> laser_arr,
                        over |-> FALSE]>>

\* the kept call, if any, is over once its caller has its result
Over ==
    remembered' = [p \in 1..Len(remembered) |->
                      [remembered[p] EXCEPT !.over = TRUE]]

(* ------------------------------------------------------------------ *)
(* A call as one function of its raw data and the attributes          *)
(* ------------------------------------------------------------------ *)

RECURSIVE Detected(_, _)
\* the detection loop (lines 77-81) run for the given number of rounds on
\* a gradient array: the array left over and the indices in order found
Detected(deriv, rounds) ==
    IF rounds = 0
    THEN [deriv |-> deriv, rising |-> <<>>, falling |-> <<>>]
    ELSE LET before == Detected(deriv, rounds - 1)
             r == ArgMax(before.deriv)
             risen == ZeroWindow(before.deriv, r)
             f == ArgMin(risen)
         IN  [deriv |-> ZeroWindow(risen, f),
              rising |-> Append(before.rising, r),
              falling |-> Append(before.falling, f)]

\* the end of a call that raises
Raised == [outcome |-> "raised", result |-> <<>>]

\* _ungated_extraction(count_data), run on its own
UngatedExtraction(array, lasers, std_dev) ==
    IF UngatedRaisesOnArray(array) \/ GradientRaises(array.values)
    THEN Raised
    ELSE LET found == Detected(ConvolveDerive[array.values][std_dev], lasers)
             rising == SortAsc(found.rising)
             falling == SortAsc(found.falling)
             length == UniformLength(rising, falling)
             value == [q \in 1..lasers |->
                          PySlice(array.values, rising[q], rising[q] + length)]
         IN  IF length < 0 \/ \E q \in 1..lasers : RowAssignRaises(value[q], length)
             THEN Raised
             ELSE [outcome |-> "returned",
                   result |-> [q \in 1..lasers |-> RowAssigned(value[q], length)]]

\* _gated_extraction(count_data), run on its own
GatedExtraction(array, std_dev) ==
    IF SumIsScalar(array) THEN Raised
    ELSE IF GradientRaises(SumOverRows(array)) THEN Raised
    ELSE LET returned == ConvolveDerive[SumOverRows(array)][std_dev]
             deriv == UnpackedConvDeriv(returned)
         IN  IF UnpackRaises(returned) \/ ColumnSliceRaises(array) THEN Raised
             ELSE [outcome |-> "returned",
                   result |-> SliceColumns(array.values,
                                           ArgMax(deriv), ArgMin(deriv))]

\* get_data_laserpulses on the given array, run on its own
Extraction(array, flag, lasers, std_dev) ==
    IF flag THEN GatedExtraction(array, std_dev)
    ELSE UngatedExtraction(array, lasers, std_dev)

(* ------------------------------------------------------------------ *)
(* A second call, running at the same time                            *)
(* ------------------------------------------------------------------ *)

VARIABLES
    other               \* the second call: its position, raw data and locals

\* the arrays get_data() delivers to the second call
OtherArrays == RecallArrays

\* the positions of a call inside the detection loop or just behind it
Running == {"rising", "falling", "slice"}

\* no second call
OtherIdle ==
    [pc |-> "idle", array |-> Array1(TrEmpty), deriv |-> <<>>,
     rising |-> <<>>, falling |-> <<>>, outcome |-> "none", result |-> <<>>,
     overlapped |-> FALSE]

\* the working array if it were an attribute of the module, where a call
\* finds the array of the call running next to it
WorkingArrayOnSelf(own, beside) == IF beside # <<>> THEN beside ELSE own

\* the working array a call searches and zeroes: conv_deriv is a local
\* name of _ungated_extraction (line 74), so each call has its own
WorkingArray(own, beside) == own

\* the second call enters get_data_laserpulses: get_data(), the dispatch,
\* and the extraction up to the head of the detection loop (the gated
\* extraction up to its end)
OtherCall ==
    /\ other.pc = "idle"
    /\ \E array \in OtherArrays :
          IF Route(is_counter_gated, Len(array.shape) = 2) = "gated"
          THEN \E ended \in {GatedExtraction(array, conv_std_dev)} :
               other' = [OtherIdle EXCEPT !.pc = "done", !.array = array,
                                          !.outcome = ended.outcome,
                                          !.result = ended.result]
          ELSE IF UngatedRaisesOnArray(array) \/ GradientRaises(array.values)
          THEN other' = [OtherIdle EXCEPT !.pc = "done", !.array = array,
                                          !.outcome = "raised"]
          ELSE other' = [OtherIdle EXCEPT
                            !.pc = "rising", !.array = array,
                            !.deriv = ConvolveDerive[array.values][conv_std_dev],
                            !.overlapped = pc \in Running]

\* lines 78-79 of the second call
OtherRisingStep ==
    /\ other.pc = "rising"
    /\ \E deriv \in {WorkingArray(other.deriv, conv_deriv)} :
       \E ind \in {ArgMax(deriv)} :
          other' = [other EXCEPT !.pc = "falling",
                                 !.rising = Append(@, ind),
                                 !.deriv = ZeroWindow(deriv, ind),
                                 !.overlapped = @ \/ pc \in Running]

\* lines 80-81 of the second call
OtherFallingStep ==
    /\ other.pc = "falling"
    /\ \E deriv \in {WorkingArray(other.deriv, conv_deriv)} :
       \E ind \in {ArgMin(deriv)} :
          other' = [other EXCEPT
                       !.pc = IF Len(other.falling) + 1 < LoopRounds(num_of_lasers)
                              THEN "rising" ELSE "slice",
                       !.falling = Append(@, ind),
                       !.deriv = ZeroWindow(deriv, ind),
                       !.overlapped = @ \/ pc \in Running]

\* lines 82-88 of the second call
OtherSliceStep ==
    /\ other.pc = "slice"
    /\ \E rest_r \in Unassigned(Len(other.rising)),
          rest_f \in Unassigned(Len(other.falling)) :
       \E rising \in {SortAsc(other.rising \o rest_r)},
          falling \in {SortAsc(other.falling \o rest_f)} :
       \E length \in {UniformLength(rising, falling)} :
       \E value \in {[q \in 1..num_of_lasers |->
                         PySlice(other.array.values, rising[q], rising[q] + length)]} :
          other' = [other EXCEPT
                       !.pc = "done",
                       !.rising = rising,
                       !.falling = falling,
                       !.outcome =
                           IF length < 0
                              \/ \E q \in 1..num_of_lasers :
                                    RowAssignRaises(value[q], length)
                           THEN "raised" ELSE "returned",
                       !.result =
                           IF length < 0
                              \/ \E q \in 1..num_of_lasers :
                                    RowAssignRaises(value[q], length)
                           THEN <<>>
                           ELSE [q \in 1..num_of_lasers |->
                                    RowAssigned(value[q], length)]]

\* the caller of the second call is done with its result
OtherReturn ==
    /\ other.pc = "done"
    /\ other' = OtherIdle

\* a step of the first call while the second one runs: the two overlap
Overlap ==
    other' = [other EXCEPT !.overlapped = @ \/ other.pc \in Running]

\* the first call starts: whether it overlaps with the second is open again
OverlapAnew ==
    other' = [other EXCEPT !.overlapped = other.pc \in Running /\ pc' \in Running]

(* ------------------------------------------------------------------ *)
(* The estimator of the bare double exponential decay                 *)
(* (decaylikemethods.py).  A float is an integer of thousandths; the  *)
(* special values of numpy's floats are Inf, -Inf and NaN.            *)
(* ------------------------------------------------------------------ *)

\* the longest data array, apart from LongData
MaxData == 2

\* np.log(0.0) is -inf
Inf == 1000000

\* np.log of a negative value, and inf - inf, are nan
NaN == Inf + Inf

\* a < b on floats: every comparison with nan is False
FloatLt(a, b) == a # NaN /\ b # NaN /\ a < b

\* np.log on the values the estimator meets
log(x) ==
    CASE x = NaN -> NaN
      [] x = Inf -> Inf
      [] FloatLt(x, 0) -> NaN
      [] x = 0 -> -Inf
      [] x = 368 -> -1000
      [] x = 1000 -> 0
      [] x = 2000 -> 693
      [] x = 2718 -> 1000

\* np.exp on the offsets of the linear fit
exp(x) ==
    CASE x = NaN -> NaN
      [] x = Inf -> Inf
      [] x = -Inf -> 0
      [] x = -1000 -> 368
      [] x = 0 -> 1000
      [] x = 1000 -> 2718

\* a - b on floats
FloatSub(a, b) ==
    IF a = NaN \/ b = NaN THEN NaN
    ELSE IF a \in {Inf, -Inf}
         THEN IF b = a THEN NaN ELSE a
    ELSE IF b \in {Inf, -Inf} THEN -b
    ELSE a - b

\* abs on floats
FloatAbs(a) == IF a = NaN THEN NaN ELSE IF a < 0 THEN -a ELSE a

\* ndarray.min() and ndarray.max(): nan if any entry is nan
ArrayMin(a) == IF NaN \in Values(a) THEN NaN ELSE SeqMin(a)
ArrayMax(a) == IF NaN \in Values(a) THEN NaN ELSE SeqMax(a)

\* (log_data < 0.0).mean() > 0.8
average_bool_val_above(log_data) ==
    5 * Cardinality({i \in DOMAIN log_data : FloatLt(log_data[i], 0)})
        > 4 * Len(log_data)

\* lines 494 to 513: the data handed to the linear fit
log_abs_log_data(data) ==
    LET log_data == [i \in DOMAIN data |-> log(data[i])]
        shifted(by) == [i \in DOMAIN data |->
                           FloatAbs(FloatSub(log_data[i], by))]
        abs_log_data ==
            IF average_bool_val_above(log_data)
            THEN IF FloatLt(ArrayMax(log_data), 0)
                 THEN shifted(0)
                 ELSE shifted(ArrayMax(log_data))
            ELSE IF FloatLt(0, ArrayMin(log_data))
                 THEN log_data
                 ELSE shifted(ArrayMin(log_data))
    IN  [i \in DOMAIN data |-> log(abs_log_data[i])]

\* the values of the data: negative, zero, below one, one, above one, nan
FitValues == {-500, 0, 368, 1000, 2718, NaN}

\* arrays long enough for four fifths of the logarithms to be negative
\* without all of them being so
LongData ==
    {[i \in 1..6 |-> IF i = 6 THEN last ELSE 368] : last \in {1000, 2718}}

\* the 1-D data arrays a caller hands over, the empty one among them
FitData ==
    UNION {[1..n -> FitValues] : n \in 0..MaxData} \cup LongData

\* the params objects of make_baredoubleexponentialdecay_model
FitParams == {[lifetime |-> l, beta |-> 2000] : l \in {1000, 5000}}

\* the error codes of the 1-D input check: 0 is OK, -1 an error
check_1D_input == {0, -1}

\* the linear-fit service: a result with an offset, or an exception
make_linear_fit ==
    {[ok |-> TRUE, offset |-> o, slope |-> s] :
        o \in {-1000, 0, 1000}, s \in {-2000, -500}}
        \cup {[ok |-> FALSE, offset |-> 0, slope |-> 0]}

VARIABLES
    fit          \* the call of the estimator: its inputs and what came of it

\* no call of the estimator yet
FitIdle ==
    [pc |-> "idle", estimator |-> "none", data |-> <<>>, step |-> 0,
     given |-> [lifetime |-> 0, beta |-> 0],
     check |-> 0, outcome |-> "none", error |-> 0,
     params |-> [lifetime |-> 0, beta |-> 0], linear_fits |-> 0,
     argument |-> <<>>, service |-> [ok |-> FALSE, offset |-> 0, slope |-> 0]]

\* lines 484 to 521, on the data, the params, the code of the input check
\* and what the linear-fit service answers if it is asked
Estimated(data, params, error, result) ==
    LET called == [FitIdle EXCEPT !.pc = "done", !.data = data,
                                  !.estimator = "baredoubleexponentialdecay",
                                  !.given = params, !.check = error,
                                  !.error = error, !.params = params,
                                  !.service = result]
    IN  IF data = <<>>
        THEN [called EXCEPT !.outcome = "raised"]
        ELSE IF FloatLt(ArrayMin(data), 0)
        THEN [called EXCEPT !.outcome = "returned", !.error = -1]
        ELSE IF ~result.ok
        THEN [called EXCEPT !.outcome = "raised", !.linear_fits = 1,
                            !.argument = log_abs_log_data(data)]
        ELSE [called EXCEPT !.outcome = "returned", !.linear_fits = 1,
                            !.argument = log_abs_log_data(data),
                            !.params.lifetime = exp(result.offset)]

\* a call of the estimator
estimate_baredoubleexponentialdecay ==
    /\ fit.pc = "idle"
    /\ \E data \in FitData, params \in FitParams,
          error \in check_1D_input, result \in make_linear_fit :
          fit' = Estimated(data, params, error, result)

\* data[i] <= data.std(), i counted from 1: the standard deviation of the
\* whole array, nan if an entry is nan
AtMostStd(data, i) ==
    LET n == Len(data)
        total == SumRange(data, 1, n)
        squares == SumRange([k \in DOMAIN data |-> data[k] * data[k]], 1, n)
    IN  /\ NaN \notin Values(data)
        /\ \/ data[i] <= 0
           \/ n * n * data[i] * data[i] <= n * squares - total * total

\* the loop of lines 605 to 607: the index i it leaves, counted from 0
CutoffIndex(data) ==
    IF \E i \in DOMAIN data : AtMostStd(data, i)
    THEN (CHOOSE i \in DOMAIN data :
             /\ AtMostStd(data, i)
             /\ \A k \in 1..(i - 1) : ~AtMostStd(data, k)) - 1
    ELSE Len(data) - 1

\* -1/slope
NegInverse(slope) ==
    IF slope < 0 THEN (1000 * 1000) \div (-slope)
                 ELSE -((1000 * 1000) \div slope)

\* the three estimators that fit a line to the logarithm of the data
DecayEstimators ==
    {"exponentialdecay", "doubleexponentialdecay",
     "stretchedexponentialdecay"}

\* np.log(data) in estimate_exponentialdecay (line 247) is an array;
\* np.log(data[i]) in the two others (lines 613 and 803) is one float
DataLogIsScalar(estimator) == estimator # "exponentialdecay"

\* the params of the three decay models before the estimation
DecayParams ==
    {[lifetime |-> 1000, min |-> -Inf, amplitude |-> a] : a \in {0, 5000}}

\* An estimator on the axis 0, step, 2*step, ... and data of its length, the
\* params, the code of the input check, and what the linear-fit service
\* answers if it is asked.  With no point the loop leaves i unbound and
\* data[i] raises; with one point x_axis[1] raises.  data_log[0:i] on a
\* float raises inside the try block, as a failing linear fit does.
DecayEstimated(estimator, step, data, params, error, result) ==
    LET called == [FitIdle EXCEPT !.pc = "done", !.data = data,
                                  !.estimator = estimator, !.step = step,
                                  !.given = params, !.check = error,
                                  !.error = error, !.params = params,
                                  !.service = result]
        i == CutoffIndex(data)
        minimum == 2 * step
        data_log == [k \in DOMAIN data |-> log(data[k])]
    IN  IF Len(data) < 2
        THEN [called EXCEPT !.outcome = "raised"]
        ELSE IF DataLogIsScalar(estimator)
        THEN [called EXCEPT !.outcome = "returned",
                            !.params.lifetime = i * step,
                            !.params.min = minimum]
        ELSE IF ~result.ok
        THEN [called EXCEPT !.outcome = "returned", !.linear_fits = 1,
                            !.argument = PySlice(data_log, 0, i),
                            !.params.lifetime = i * step,
                            !.params.min = minimum]
        ELSE [called EXCEPT !.outcome = "returned", !.linear_fits = 1,
                            !.argument = PySlice(data_log, 0, i),
                            !.params.lifetime = NegInverse(result.slope),
                            !.params.min = minimum,
                            !.params.amplitude = result.offset]

\* a call of one of the three estimators
EstimateDecay(estimator) ==
    /\ fit.pc = "idle"
    /\ \E data \in FitData, step \in {1000, 3000}, params \in DecayParams,
          error \in check_1D_input, result \in make_linear_fit :
          fit' = DecayEstimated(estimator, step, data, params, error, result)

estimate_exponentialdecay == EstimateDecay("exponentialdecay")

estimate_doubleexponentialdecay == EstimateDecay("doubleexponentialdecay")

estimate_stretchedexponentialdecay == EstimateDecay("stretchedexponentialdecay")

\* the caller is done with what the estimator returned or raised
FitReturn ==
    /\ fit.pc = "done"
    /\ fit' = FitIdle

(* ------------------------------------------------------------------ *)
(* The scanner GUI (scannergui.py).  A dict is a function, a widget a  *)
(* record of the values it holds and of the slots connected to its     *)
(* signals.                                                            *)
(* ------------------------------------------------------------------ *)

\* the axes the scanning logic reports, in their order: two scanners
Scanners == {<<"x", "y">>, <<"x", "y", "z">>}

\* positions along an axis, inside its value bounds
Positions == {10, 20}

\* id(self), the caller id of this GUI
Self == "ScannerGui"

\* the caller ids a position update can carry: this GUI, another module,
\* or None
Callers == {Self, "ScanningProbeLogic", "None"}

VARIABLES
    activated,                  \* on_activate has run to its end
    scanner_axes,               \* self._scanninglogic().scanner_axes
    axes_control_widgets,       \* self.axes_control_widgets
    optimizer_settings_axes_widgets, \* its keys
    scan_1d_dockwidgets,        \* self.scan_1d_dockwidgets
    scan_2d_dockwidgets,        \* self.scan_2d_dockwidgets
    show_true_scanner_position, \* self._show_true_scanner_position
    ax_name,                    \* the loop variable the lambdas of lines
                                \* 523 to 525 refer to
    connections,                \* slots connected to the signals of the
                                \* GUI, of its main window and of the logic
    created,                    \* scan dockwidgets the last handler built
    emitted,                    \* the signals the last handler emitted
    logic_read,                 \* the logic attributes it read
    event,                      \* the last handler and its arguments
    gui_outcome                 \* "ok", "logged" (log.error) or "raised"

gui_vars ==
    <<activated, scanner_axes, axes_control_widgets,
      optimizer_settings_axes_widgets, scan_1d_dockwidgets,
      scan_2d_dockwidgets, show_true_scanner_position, ax_name, connections,
      created, emitted, logic_read, event, gui_outcome>>

\* the widgets a handler may change
widgets == <<axes_control_widgets, scan_1d_dockwidgets, scan_2d_dockwidgets>>

\* what the handlers of a running GUI leave alone
gui_frame ==
    <<activated, scanner_axes, optimizer_settings_axes_widgets, ax_name,
      connections>>

\* the signals of the GUI object and of the logic, which outlive a
\* deactivation, and those of the main window, which is built anew
OwnSignals ==
    {"sigSetScannerTarget", "sigScanSettingsChanged",
     "sigOptimizerSettingsChanged", "sigToggleScan",
     "sigScannerPositionChanged", "sigScannerTargetChanged",
     "logic.sigScanSettingsChanged", "logic.sigOptimizerSettingsChanged",
     "sigScanDataChanged", "sigScanStateChanged"}
WindowSignals ==
    {"action_restore_default_view", "action_history_forward",
     "action_history_back", "action_utility_full_range",
     "action_utility_zoom"}

\* the module after __init__ (lines 254 to 272) with its status variables
\* at their defaults: no widget yet
GuiInit ==
    /\ activated = FALSE
    /\ scanner_axes = <<>>
    /\ axes_control_widgets = <<>>
    /\ optimizer_settings_axes_widgets = {}
    /\ scan_1d_dockwidgets = <<>>
    /\ scan_2d_dockwidgets = <<>>
    /\ show_true_scanner_position = TRUE
    /\ ax_name = "none"
    /\ connections = [s \in OwnSignals \cup WindowSignals |-> 0]
    /\ created = 0
    /\ emitted = <<>>
    /\ logic_read = {}
    /\ event = [handler |-> "__init__"]
    /\ gui_outcome = "ok"

\* the dicts {axis: position} a signal carries: the empty one and those of
\* one axis (a dict of all axes is what the logic gives when read)
PosDicts ==
    UNION {[s -> Positions] :
              s \in {t \in SUBSET Values(scanner_axes) : Cardinality(t) <= 1}}

\* scanner_target and scanner_position of the logic: a position per axis
LogicPositions == [Values(scanner_axes) -> Positions]

\* a crosshair position if only the first axis of a scan were looked at
MovedFirstAxisOnly(position, axes, pos_dict) ==
    <<IF axes[1] \in DOMAIN pos_dict THEN pos_dict[axes[1]] ELSE position[1],
      position[2]>>

\* a crosshair position after the loop body of lines 981 to 987 (and 1013
\* to 1018) has run for every item of pos_dict
Moved(position, axes, pos_dict) ==
    <<IF axes[1] \in DOMAIN pos_dict THEN pos_dict[axes[1]] ELSE position[1],
      IF axes[2] \in DOMAIN pos_dict THEN pos_dict[axes[2]] ELSE position[2]>>

\* the 2D dockwidgets if the target crosshair were moved whatever k is
MovedTargetCrosshairs(docks, k, pos_dict, exclude) ==
    [axes \in DOMAIN docks |->
        [docks[axes] EXCEPT
            !.crosshairs[1] =
                <<IF axes[1] \in DOMAIN pos_dict
                  THEN pos_dict[axes[1]] ELSE @[1],
                  IF axes[2] \in DOMAIN pos_dict
                  THEN pos_dict[axes[2]] ELSE @[2]>>]]

\* the 2D dockwidgets after crosshair k, counted from 1, of each of them
\* but the excluded one has been moved
MovedCrosshairs(docks, k, pos_dict, exclude) ==
    [axes \in DOMAIN docks |->
        IF exclude.widget = "crosshair" /\ exclude.of = axes
        THEN docks[axes]
        ELSE [docks[axes] EXCEPT
                 !.crosshairs[k] = Moved(@, axes, pos_dict)]]

\* the axes control widgets after lines 997 to 1006
TargetControls(controls, pos_dict, exclude) ==
    [a \in DOMAIN controls |->
        IF a \notin DOMAIN pos_dict THEN controls[a]
        ELSE [controls[a] EXCEPT
                 !.pos_spinbox =
                     IF exclude.widget = "pos_spinbox" /\ exclude.of = <<a>>
                     THEN @ ELSE pos_dict[a],
                 !.slider =
                     IF exclude.widget = "slider" /\ exclude.of = <<a>>
                     THEN @ ELSE pos_dict[a]]]

\* exclude_widget=None
NoWidget == [widget |-> "None", of |-> <<>>]

\* _update_target_display(pos_dict, exclude_widget)
update_target_display(pos_dict, exclude) ==
    /\ axes_control_widgets' =
           TargetControls(axes_control_widgets, pos_dict, exclude)
    /\ scan_2d_dockwidgets' =
           MovedCrosshairs(scan_2d_dockwidgets, 1, pos_dict, exclude)

\* The slot scanner_target_updated(pos_dict, caller_id), called through the
\* logic's sigScannerTargetChanged; without a dict it reads the target from
\* the logic.
scanner_target_updated ==
    /\ connections["sigScannerTargetChanged"] > 0
    /\ \E caller \in Callers, is_dict \in BOOLEAN :
       \E pos_dict \in IF is_dict THEN PosDicts ELSE LogicPositions :
          /\ event' = [handler |-> "scanner_target_updated",
                       caller |-> caller, pos_dict |-> pos_dict]
          /\ IF caller = Self
             THEN /\ logic_read' = {}
                  /\ UNCHANGED widgets
             ELSE /\ logic_read' =
                         IF is_dict THEN {} ELSE {"scanner_target"}
                  /\ update_target_display(pos_dict, NoWidget)
                  /\ UNCHANGED scan_1d_dockwidgets
    /\ emitted' = <<>>
    /\ gui_outcome' = "ok"
    /\ created' = 0
    /\ UNCHANGED <<gui_frame, show_true_scanner_position>>

\* The slot scanner_position_updated(pos_dict, caller_id), called through
\* the logic's sigScannerPositionChanged.
scanner_position_updated ==
    /\ connections["sigScannerPositionChanged"] > 0
    /\ \E caller \in Callers, is_dict \in BOOLEAN :
       \E pos_dict \in IF is_dict THEN PosDicts ELSE LogicPositions :
          /\ event' = [handler |-> "scanner_position_updated",
                       caller |-> caller, pos_dict |-> pos_dict]
          /\ IF caller = Self \/ ~show_true_scanner_position
             THEN /\ logic_read' = {}
                  /\ UNCHANGED widgets
             ELSE /\ logic_read' =
                         IF is_dict THEN {} ELSE {"scanner_position"}
                  /\ scan_2d_dockwidgets' =
                         MovedCrosshairs(scan_2d_dockwidgets, 2, pos_dict,
                                         NoWidget)
                  /\ UNCHANGED <<axes_control_widgets, scan_1d_dockwidgets>>
    /\ emitted' = <<>>
    /\ gui_outcome' = "ok"
    /\ created' = 0
    /\ UNCHANGED <<gui_frame, show_true_scanner_position>>

\* self.sigSetScannerTarget.emit(target_pos, id(self))
set_scanner_target_position(target_pos) ==
    emitted' = <<[signal |-> "sigSetScannerTarget", args |-> target_pos,
                  caller |-> Self]>>

\* The user moves the slider or edits the position spinbox of an axis, or
\* drags the target crosshair of a 2D scan: the widget takes the new value
\* and the slot made by __get_slider_update_func,
\* __get_target_spinbox_update_func or __get_crosshair_update_func updates
\* the other widgets and notifies the logic.
TargetEdited ==
    /\ activated
    /\ \E w \in {"slider", "pos_spinbox", "crosshair"} :
       \E of \in IF w = "crosshair" THEN DOMAIN scan_2d_dockwidgets
                 ELSE {<<a>> : a \in DOMAIN axes_control_widgets} :
       \E pos_dict \in [Values(of) -> Positions] :
          /\ w = "crosshair" => scan_2d_dockwidgets[of].dragged > 0
          /\ event' = [handler |-> "update_func", caller |-> Self,
                       pos_dict |-> pos_dict]
          /\ axes_control_widgets' =
                 TargetControls(
                     IF w = "crosshair" THEN axes_control_widgets
                     ELSE [axes_control_widgets EXCEPT
                              ![of[1]][w] = pos_dict[of[1]]],
                     pos_dict, [widget |-> w, of |-> of])
          /\ scan_2d_dockwidgets' =
                 MovedCrosshairs(
                     IF w # "crosshair" THEN scan_2d_dockwidgets
                     ELSE [scan_2d_dockwidgets EXCEPT
                              ![of].crosshairs[1] =
                                  <<pos_dict[of[1]], pos_dict[of[2]]>>],
                     1, pos_dict, [widget |-> w, of |-> of])
          /\ set_scanner_target_position(pos_dict)
    /\ logic_read' = {}
    /\ gui_outcome' = "ok"
    /\ created' = 0
    /\ UNCHANGED <<gui_frame, show_true_scanner_position,
                   scan_1d_dockwidgets>>

\* toggle_true_scanner_position_display(show)
toggle_true_scanner_position_display ==
    /\ activated
    /\ \E show \in BOOLEAN :
          /\ event' = [handler |-> "toggle_true_scanner_position_display",
                       show |-> show]
          /\ show_true_scanner_position' = show
          /\ scan_2d_dockwidgets' =
                 IF show = show_true_scanner_position
                 THEN scan_2d_dockwidgets
                 ELSE [axes \in DOMAIN scan_2d_dockwidgets |->
                          [scan_2d_dockwidgets[axes] EXCEPT
                              !.position_shown = show]]
    /\ emitted' = <<>>
    /\ logic_read' = {}
    /\ gui_outcome' = "ok"
    /\ created' = 0
    /\ UNCHANGED <<gui_frame, axes_control_widgets, scan_1d_dockwidgets>>

\* the 2D scans on_activate adds (lines 297 to 303): every pair of axes, in
\* their order
ScanPairs(axes) ==
    {<<axes[p[1]], axes[p[2]]>> :
        p \in {q \in (DOMAIN axes) \X (DOMAIN axes) : q[1] < q[2]}}

\* the axes of a scan: one axis, or two different ones in either order
ScanAxes ==
    {<<a>> : a \in Values(scanner_axes)} \cup
    ({<<a, b>> : a, b \in Values(scanner_axes)}
        \ {<<a, a>> : a \in Values(scanner_axes)})

\* a Scan2dDockWidget as lines 731 to 766 leave it: two crosshairs, the
\* second one hidden unless the true position is shown, the toggle button
\* up, three signals connected
Scan2dDockWidget(show) ==
    [crosshairs |-> << <<0, 0>>, <<0, 0>> >>, position_shown |-> show,
     checked |-> FALSE, enabled |-> TRUE,
     clicked |-> 1, dragged |-> 1, selected |-> 1]

\* a Scan1dDockWidget as lines 725 to 737 leave it
Scan1dDockWidget == [checked |-> FALSE, enabled |-> TRUE, clicked |-> 1]

\* a dict with the item key: value added, or replaced
WithItem(dict, key, value) ==
    [k \in DOMAIN dict \cup {key} |-> IF k = key THEN value ELSE dict[k]]

\* a dict after "del dict[key]"
WithoutItem(dict, key) == [k \in DOMAIN dict \ {key} |-> dict[k]]

\* The slot an editingFinished signal of line 523 to 525 is connected to
\* reads ax_name when it runs: self.change_scan_range(ax_name), lines 1057
\* to 1065; axis None stands for all axes
change_scan_range(controls, axis) ==
    [signal |-> "sigScanSettingsChanged", setting |-> "range",
     args |-> [a \in IF axis = "None" THEN DOMAIN controls ELSE {axis} |->
                  <<controls[a].min_spinbox, controls[a].max_spinbox>>]]

\* self.change_scan_resolution(axis), lines 1068 to 1075
change_scan_resolution(controls, axis) ==
    [signal |-> "sigScanSettingsChanged", setting |-> "resolution",
     args |-> [a \in IF axis = "None" THEN DOMAIN controls ELSE {axis} |->
                  controls[a].res_spinbox]]

\* the values a user may give a spinbox of the scan settings
SpinboxValues ==
    [min_spinbox |-> {0, 5}, max_spinbox |-> {30, 40},
     res_spinbox |-> {64, 128}]

\* The user finishes an edit in the min-range, max-range or resolution
\* spinbox of an axis: the spinbox holds the value, and the lambda of line
\* 523, 524 or 525 runs.
SpinboxEdited ==
    /\ activated
    /\ \E w \in DOMAIN SpinboxValues, a \in DOMAIN axes_control_widgets :
       \E value \in SpinboxValues[w] :
       \E controls \in {[axes_control_widgets EXCEPT ![a][w] = value]} :
          /\ event' = [handler |-> "editingFinished", widget |-> w,
                       axis |-> a]
          /\ axes_control_widgets' = controls
          /\ emitted' =
                 <<IF w = "res_spinbox"
                   THEN change_scan_resolution(controls, ax_name)
                   ELSE change_scan_range(controls, ax_name)>>
    /\ logic_read' = {}
    /\ gui_outcome' = "ok"
    /\ created' = 0
    /\ UNCHANGED <<gui_frame, show_true_scanner_position,
                   scan_1d_dockwidgets, scan_2d_dockwidgets>>

\* on_activate, lines 274 to 370, with a logic whose scanner has one of the
\* given axes lists, whose target and position are among the given
\* positions, and whose scan settings are range (0, 30) and resolution 64 on
\* every axis.  The main window and its actions are new objects; the
\* signals of the module and of the logic are those of the last activation.
Activate(scanners, positions) ==
    /\ ~activated
    /\ \E axes \in IF scanner_axes = <<>> THEN scanners ELSE {scanner_axes} :
       \E target \in [Values(axes) -> positions],
          position \in [Values(axes) -> positions] :
          /\ scanner_axes' = axes
          /\ optimizer_settings_axes_widgets' = Values(axes)
          /\ axes_control_widgets' =
                 TargetControls(
                     [a \in Values(axes) |->
                         [pos_spinbox |-> 0, slider |-> 0, min_spinbox |-> 0,
                          max_spinbox |-> 30, res_spinbox |-> 64]],
                     target, NoWidget)
          /\ ax_name' = axes[Len(axes)]
          /\ scan_1d_dockwidgets' = <<>>
          /\ \E targeted \in
                 {MovedCrosshairs(
                      [p \in ScanPairs(axes) |->
                          Scan2dDockWidget(show_true_scanner_position)],
                      1, target, NoWidget)} :
                scan_2d_dockwidgets' =
                    IF show_true_scanner_position
                    THEN MovedCrosshairs(targeted, 2, position, NoWidget)
                    ELSE targeted
          /\ created' = Cardinality(ScanPairs(axes))
          /\ logic_read' =
                 {"scanner_axes", "scan_settings", "scanner_target"} \cup
                 IF show_true_scanner_position
                 THEN {"scanner_position"} ELSE {}
    /\ connections' =
           [s \in DOMAIN connections |->
               IF s \in WindowSignals THEN 1 ELSE connections[s] + 1]
    /\ activated' = TRUE
    /\ emitted' = <<>>
    /\ event' = [handler |-> "on_activate"]
    /\ gui_outcome' = "ok"
    /\ UNCHANGED show_true_scanner_position

on_activate == Activate(Scanners, Positions)

\* _remove_scan_dockwidget(axes), lines 696 to 712: the two dicts after it
\* and whether it raised.  A Scan2dDockWidget has an attribute
\* channel_combobox and none named channel_selection_combobox: line 708
\* raises AttributeError after the three signals above it are disconnected.
RemoveScanDockwidget(docks_1d, docks_2d, axes) ==
    IF axes \in DOMAIN docks_1d
    THEN [docks_1d |-> WithoutItem(docks_1d, axes), docks_2d |-> docks_2d,
          outcome |-> "ok"]
    ELSE IF axes \in DOMAIN docks_2d
    THEN [docks_1d |-> docks_1d,
          docks_2d |-> [docks_2d EXCEPT ![axes].clicked = 0,
                                        ![axes].dragged = 0,
                                        ![axes].selected = 0],
          outcome |-> "raised"]
    ELSE [docks_1d |-> docks_1d, docks_2d |-> docks_2d, outcome |-> "ok"]

\* a call of _remove_scan_dockwidget
remove_scan_dockwidget ==
    /\ activated
    /\ \E axes \in ScanAxes :
       \E after \in {RemoveScanDockwidget(scan_1d_dockwidgets,
                                          scan_2d_dockwidgets, axes)} :
          /\ event' = [handler |-> "_remove_scan_dockwidget", axes |-> axes]
          /\ scan_1d_dockwidgets' = after.docks_1d
          /\ scan_2d_dockwidgets' = after.docks_2d
          /\ gui_outcome' = after.outcome
    /\ created' = 0
    /\ emitted' = <<>>
    /\ logic_read' = {}
    /\ UNCHANGED <<activated, scanner_axes, axes_control_widgets,
                   optimizer_settings_axes_widgets, ax_name, connections,
                   show_true_scanner_position>>

\* no test for a widget of the same axes
NeverCreated(docks_1d, docks_2d, axes) == FALSE

\* lines 720 and 739: a widget for this scan is already created
AlreadyCreated(docks_1d, docks_2d, axes) ==
    axes \in DOMAIN (IF Len(axes) = 1 THEN docks_1d ELSE docks_2d)

\* a call of _add_scan_dockwidget(axes), lines 714 to 776
add_scan_dockwidget ==
    /\ activated
    /\ \E axes \in ScanAxes :
          /\ event' = [handler |-> "_add_scan_dockwidget", axes |-> axes]
          /\ IF AlreadyCreated(scan_1d_dockwidgets, scan_2d_dockwidgets, axes)
             THEN /\ gui_outcome' = "logged"
                  /\ created' = 0
                  /\ UNCHANGED <<scan_1d_dockwidgets, scan_2d_dockwidgets>>
             ELSE /\ gui_outcome' = "ok"
                  /\ created' = 1
                  /\ IF Len(axes) = 1
                     THEN /\ scan_1d_dockwidgets' =
                                 WithItem(scan_1d_dockwidgets, axes,
                                          Scan1dDockWidget)
                          /\ UNCHANGED scan_2d_dockwidgets
                     ELSE /\ scan_2d_dockwidgets' =
                                 WithItem(scan_2d_dockwidgets, axes,
                                    Scan2dDockWidget(
                                        show_true_scanner_position))
                          /\ UNCHANGED scan_1d_dockwidgets
    /\ emitted' = <<>>
    /\ logic_read' = {"scanner_constraints", "optimizer_settings"}
    /\ UNCHANGED <<activated, scanner_axes, axes_control_widgets,
                   optimizer_settings_axes_widgets, ax_name, connections,
                   show_true_scanner_position>>

\* on_deactivate, lines 372 to 405: the signals are disconnected, the 1D
\* dockwidgets removed, and the first 2D dockwidget, if there is one, makes
\* _remove_scan_dockwidget raise, before the axes widgets are cleared.
on_deactivate ==
    /\ activated
    /\ activated' = FALSE
    /\ connections' = [s \in DOMAIN connections |-> 0]
    /\ scan_1d_dockwidgets' = <<>>
    /\ IF DOMAIN scan_2d_dockwidgets = {}
       THEN /\ gui_outcome' = "ok"
            /\ axes_control_widgets' = <<>>
            /\ optimizer_settings_axes_widgets' = {}
            /\ UNCHANGED scan_2d_dockwidgets
       ELSE /\ gui_outcome' = "raised"
            /\ \E first \in DOMAIN scan_2d_dockwidgets :
                  scan_2d_dockwidgets' =
                      RemoveScanDockwidget(<<>>, scan_2d_dockwidgets,
                                           first).docks_2d
            /\ UNCHANGED <<axes_control_widgets,
                           optimizer_settings_axes_widgets>>
    /\ created' = 0
    /\ emitted' = <<>>
    /\ logic_read' = {}
    /\ event' = [handler |-> "on_deactivate"]
    /\ UNCHANGED <<scanner_axes, ax_name, show_true_scanner_position>>

\* the toggle buttons of the dockwidgets of one dict after lines 950 to 971
ToggleButtons(docks, is_running, scan_axes) ==
    [axes \in DOMAIN docks |->
        IF axes = scan_axes
        THEN [docks[axes] EXCEPT !.checked = is_running]
        ELSE [docks[axes] EXCEPT !.enabled = ~is_running]]

\* the slot scan_state_updated(is_running, scan_axes), called through the
\* logic's sigScanStateChanged
scan_state_updated ==
    /\ connections["sigScanStateChanged"] > 0
    /\ \E is_running \in BOOLEAN, scan_axes \in ScanAxes :
          /\ event' = [handler |-> "scan_state_updated",
                       is_running |-> is_running, scan_axes |-> scan_axes]
          /\ scan_2d_dockwidgets' =
                 ToggleButtons(scan_2d_dockwidgets, is_running, scan_axes)
          /\ scan_1d_dockwidgets' =
                 ToggleButtons(scan_1d_dockwidgets, is_running, scan_axes)
    /\ created' = 0
    /\ emitted' = <<>>
    /\ logic_read' = {}
    /\ gui_outcome' = "ok"
    /\ UNCHANGED <<activated, scanner_axes, axes_control_widgets,
                   optimizer_settings_axes_widgets, ax_name, connections,
                   show_true_scanner_position>>

(* ------------------------------------------------------------------ *)
(* Specifications                                                     *)
(* ------------------------------------------------------------------ *)

vars == <<extraction_vars, tally, remembered, other, fit, gui_vars>>

\* what the pulse extraction leaves alone
beside_extraction == <<tally, remembered, other, fit, gui_vars>>

\* what the counting leaves alone
beside_tally == <<remembered, other, fit, gui_vars>>

Init ==
    /\ ExtractionInit /\ TallyInit /\ remembered = <<>> /\ other = OtherIdle
    /\ fit = FitIdle
    /\ GuiInit

Next ==
    \/ activation /\ UNCHANGED beside_extraction
    \/ Configure /\ UNCHANGED beside_extraction
    \/ GatedCall /\ UNCHANGED beside_extraction
    \/ UngatedCall /\ UNCHANGED beside_extraction
    \/ GetDataRaises /\ UNCHANGED beside_extraction
    \/ RisingStep /\ UNCHANGED beside_extraction
    \/ FallingStep /\ UNCHANGED beside_extraction
    \/ SliceStep /\ UNCHANGED beside_extraction
    \/ WriteRawData /\ UNCHANGED beside_extraction
    \/ WriteResult /\ UNCHANGED beside_extraction
    \/ Return /\ UNCHANGED beside_extraction

Spec == Init /\ [][Next]_vars

\* the same steps with the calls of the counter's methods counted
NextCalls ==
    \/ activation /\ TallyActivation /\ UNCHANGED beside_tally
    \/ Configure /\ UNCHANGED beside_extraction
    \/ CallsLeft /\ GatedCall /\ TallyCall /\ UNCHANGED beside_tally
    \/ CallsLeft /\ UngatedCall /\ TallyCall /\ UNCHANGED beside_tally
    \/ CallsLeft /\ GetDataRaises /\ TallyCall /\ UNCHANGED beside_tally
    \/ RisingStep /\ TallyStep /\ UNCHANGED beside_tally
    \/ FallingStep /\ TallyStep /\ UNCHANGED beside_tally
    \/ SliceStep /\ TallyStep /\ UNCHANGED beside_tally
    \/ WriteRawData /\ UNCHANGED beside_extraction
    \/ WriteResult /\ UNCHANGED beside_extraction
    \/ Return /\ UNCHANGED beside_extraction

SpecCalls == Init /\ [][NextCalls]_vars

\* a module whose owner has set num_of_lasers within 1..MaxLasers
InitRecall ==
    /\ \E n \in 1..MaxLasers, sd \in StdDevs : Constructed(n, sd)
    /\ TallyInit
    /\ remembered = <<>>
    /\ other = OtherIdle
    /\ fit = FitIdle
    /\ GuiInit

\* the steps of a module that stays so configured, and one call kept
NextRecall ==
    \/ activation /\ UNCHANGED beside_extraction
    \/ ConfigureTo(1..MaxLasers) /\ UNCHANGED beside_extraction
    \/ GatedCall /\ UNCHANGED beside_extraction
    \/ UngatedCall /\ UNCHANGED beside_extraction
    \/ GetDataRaises /\ UNCHANGED beside_extraction
    \/ RisingStep /\ UNCHANGED beside_extraction
    \/ FallingStep /\ UNCHANGED beside_extraction
    \/ SliceStep /\ UNCHANGED beside_extraction
    \/ WriteRawData /\ UNCHANGED beside_extraction
    \/ WriteResult /\ UNCHANGED beside_extraction
    \/ Return /\ Over /\ UNCHANGED <<tally, other, fit, gui_vars>>
    \/ Remember
         /\ UNCHANGED <<extraction_vars, tally, other, fit, gui_vars>>

SpecRecall == InitRecall /\ [][NextRecall]_vars

\* the traces of scenario B: baselines and plateau heights
ScenarioBArrays ==
    {Array1(ScenarioB(base, height)) : base \in {0, 10}, height \in {50, 90, 200}}

\* an ungated counter delivers a trace of scenario B
ScenarioBCall == UngatedCallWith(FALSE, ScenarioBArrays, FALSE)

\* a module asked for the three pulses of scenario B
InitB ==
    /\ \E sd \in StdDevs : Constructed(3, sd)
    /\ TallyInit
    /\ remembered = <<>>
    /\ other = OtherIdle
    /\ fit = FitIdle
    /\ GuiInit

\* its calls on the traces of scenario B
NextB ==
    \/ ScenarioBCall /\ UNCHANGED beside_extraction
    \/ RisingStep /\ UNCHANGED beside_extraction
    \/ FallingStep /\ UNCHANGED beside_extraction
    \/ SliceStep /\ UNCHANGED beside_extraction
    \/ WriteRawData /\ UNCHANGED beside_extraction
    \/ WriteResult /\ UNCHANGED beside_extraction
    \/ Return /\ UNCHANGED beside_extraction

SpecB == InitB /\ [][NextB]_vars

\* what a step of the first call leaves alone when a second call runs
beside_pair == <<tally, remembered, fit, gui_vars>>

\* what a step of the second call leaves alone
beside_other ==
    <<extraction_vars, tally, remembered, fit, gui_vars>>

\* Two calls on one module, their steps interleaved in any order; the
\* attributes are assigned, and the module activated, between calls.
NextPair ==
    \/ other.pc = "idle" /\ activation /\ UNCHANGED beside_extraction
    \/ other.pc = "idle" /\ ConfigureTo(1..MaxLasers)
                         /\ UNCHANGED beside_extraction
    \/ GatedCall /\ OverlapAnew /\ UNCHANGED beside_pair
    \/ UngatedCall /\ OverlapAnew /\ UNCHANGED beside_pair
    \/ RisingStep /\ Overlap /\ UNCHANGED beside_pair
    \/ FallingStep /\ Overlap /\ UNCHANGED beside_pair
    \/ SliceStep /\ UNCHANGED beside_extraction
    \/ Return /\ UNCHANGED beside_extraction
    \/ OtherCall /\ UNCHANGED beside_other
    \/ OtherRisingStep /\ UNCHANGED beside_other
    \/ OtherFallingStep /\ UNCHANGED beside_other
    \/ OtherSliceStep /\ UNCHANGED beside_other
    \/ OtherReturn /\ UNCHANGED beside_other

SpecPair == InitRecall /\ [][NextPair]_vars

\* what a call of the estimator leaves alone
beside_fit ==
    <<extraction_vars, tally, remembered, other, gui_vars>>

\* calls of the estimator, one after another
NextFit ==
    \/ estimate_baredoubleexponentialdecay /\ UNCHANGED beside_fit
    \/ estimate_exponentialdecay /\ UNCHANGED beside_fit
    \/ estimate_doubleexponentialdecay /\ UNCHANGED beside_fit
    \/ estimate_stretchedexponentialdecay /\ UNCHANGED beside_fit
    \/ FitReturn /\ UNCHANGED beside_fit

SpecFit == Init /\ [][NextFit]_vars

\* the module loaded beside the pulse extraction of an ungated counter
InitGui == Init /\ ~fc_gated

\* what the GUI leaves alone
beside_gui == <<extraction_vars, tally, remembered, other, fit>>

\* a running GUI: updates of target and position from the logic and from
\* the user
NextGui ==
    \/ Activate(Scanners, {10}) /\ UNCHANGED beside_gui
    \/ scanner_target_updated /\ UNCHANGED beside_gui
    \/ scanner_position_updated /\ UNCHANGED beside_gui
    \/ TargetEdited /\ UNCHANGED beside_gui
    \/ toggle_true_scanner_position_display /\ UNCHANGED beside_gui

SpecGui == InitGui /\ [][NextGui]_vars

\* the GUI of a scanner with two axes: its activations and deactivations,
\* its scan dockwidgets and the scan states the logic reports
NextDock ==
    \/ Activate({<<"x", "y">>}, {10}) /\ UNCHANGED beside_gui
    \/ on_deactivate /\ UNCHANGED beside_gui
    \/ add_scan_dockwidget /\ UNCHANGED beside_gui
    \/ remove_scan_dockwidget /\ UNCHANGED beside_gui
    \/ scan_state_updated /\ UNCHANGED beside_gui

SpecDock == InitGui /\ [][NextDock]_vars

\* a running GUI whose user edits the scan settings
NextSettings ==
    \/ Activate(Scanners, {10}) /\ UNCHANGED beside_gui
    \/ SpinboxEdited /\ UNCHANGED beside_gui

SpecSettings == InitGui /\ [][NextSettings]_vars

(* ------------------------------------------------------------------ *)
(* Properties                                                         *)
(* ------------------------------------------------------------------ *)

\* a gated call on a 2-D array of numbers with a row and two bins or more
\* has ended, and its caller has not written to the arrays yet
GatedDone ==
    /\ pc = "done"
    /\ route = "gated"
    /\ written = "none"
    /\ raw_dtype = "int"
    /\ Len(raw_shape) = 2
    /\ raw_shape[1] >= 1
    /\ raw_shape[2] >= 2

\* an ungated call on a 1-D trace has ended after its detection loop ran to
\* completion, and its caller has not written to the arrays yet
UngatedDone ==
    /\ pc = "done"
    /\ route = "ungated"
    /\ written = "none"
    /\ Len(rising_ind) = num_of_lasers

\* the number of samples of the trace of the running call: the length of
\* the last axis of the raw data array
TraceLength == raw_shape[Len(raw_shape)]

\* a call on an array of numbers has ended, and its caller has not written
\* to the arrays yet
NumbersDone ==
    pc = "done" /\ route # "none" /\ written = "none" /\ raw_dtype = "int"

\* C1: in gated mode, for raw data with R >= 1 rows on which edge detection
\* of the row sum yields the rising index r and the falling index f, the
\* call returns, without raising, exactly R segments, each of length f - r.
C1_GatedShape ==
    GatedDone =>
        /\ outcome = "returned"
        /\ Len(laser_arr) = Len(raw_data)
        /\ \E deriv \in {convolve_derive(timetrace_sum(raw_data), conv_std_dev)} :
              \A q \in 1..Len(laser_arr) :
                  Len(laser_arr[q]) = ArgMin(deriv) - ArgMax(deriv)

\* C2: in ungated mode with num_of_lasers = N, whenever the extraction
\* returns, the result has exactly N segments, all of the same length L,
\* and L is the maximum of falling_i - rising_i over the N sorted rising and
\* the N sorted falling indices.
C2_UngatedShape ==
    (UngatedDone /\ outcome = "returned") =>
        /\ Len(falling_ind) = num_of_lasers
        /\ \A q \in 1..(num_of_lasers - 1) :
              /\ rising_ind[q] <= rising_ind[q + 1]
              /\ falling_ind[q] <= falling_ind[q + 1]
        /\ Len(laser_arr) = num_of_lasers
        /\ \E i \in 1..num_of_lasers :
              /\ \A j \in 1..num_of_lasers :
                    falling_ind[j] - rising_ind[j] <= falling_ind[i] - rising_ind[i]
              /\ \A q \in 1..num_of_lasers :
                    Len(laser_arr[q]) = falling_ind[i] - rising_ind[i]

\* C2 witness: an ungated call returned two segments for two pulses whose
\* detected intervals differ, so that the maximum is not every interval.
C2_Witness ==
    /\ UngatedDone
    /\ outcome = "returned"
    /\ num_of_lasers = 2
    /\ falling_ind[1] - rising_ind[1] > falling_ind[2] - rising_ind[2]
    /\ falling_ind[2] - rising_ind[2] > 0
    /\ Len(laser_arr[2]) > 0

\* C3: in ungated mode, for every trace and every num_of_lasers >= 2, the
\* sorted rising indices are strictly ascending (no index occurs twice), and
\* so are the sorted falling indices, also when an edge lies less than 100
\* samples from the start or the end of the trace.
C3_StrictlyAscending ==
    (UngatedDone /\ num_of_lasers >= 2) =>
        \A q \in 1..(num_of_lasers - 1) :
            /\ rising_ind[q] < rising_ind[q + 1]
            /\ falling_ind[q] < falling_ind[q + 1]

\* every entry of the working gradient in the window [ind - 100, ind + 100)
\* that lies inside the array is zero
WindowIsZero(ind) ==
    \A p \in 1..Len(conv_deriv) :
        (ind - ExclusionHalfWidth <= p - 1 /\ p - 1 < ind + ExclusionHalfWidth)
            => conv_deriv[p] = 0

\* C4: in ungated mode, after an edge is found at index k and before the
\* next search of the working gradient, every entry of the working gradient
\* within 100 samples of k (and inside the array) is zero; for every k,
\* k < 100 included.
C4_WindowZeroed ==
    /\ pc = "falling" => WindowIsZero(rising_ind[Len(rising_ind)])
    /\ (pc \in {"rising", "slice"} /\ Len(falling_ind) > 0)
          => WindowIsZero(falling_ind[Len(falling_ind)])

\* C5: the extraction signals an error to the caller, and returns no
\* PulseSet, whenever the index arithmetic of an edge would read outside
\* the trace: an exclusion window [k-100, k+100) that starts below 0 or
\* ends past the trace length, or an ungated slice [rising_i, rising_i + L)
\* that ends past the trace length.
C5_BoundaryError ==
    (/\ UngatedDone
     /\ \/ \E q \in 1..num_of_lasers :
              \/ rising_ind[q] - ExclusionHalfWidth < 0
              \/ rising_ind[q] + ExclusionHalfWidth > Len(raw_data)
              \/ falling_ind[q] - ExclusionHalfWidth < 0
              \/ falling_ind[q] + ExclusionHalfWidth > Len(raw_data)
        \/ \E q \in 1..num_of_lasers :
              rising_ind[q] + laser_length > Len(raw_data))
        => (outcome = "raised" /\ laser_arr = <<>>)

\* C6: for every trace whose length is less than 2 x conv_std_dev samples,
\* the extraction (gated or ungated) raises an error instead of returning
\* a result.
C6_ShortTraceRaises ==
    (NumbersDone /\ TraceLength < 2 * conv_std_dev) => outcome = "raised"

\* C7: in ungated mode, when the trace does not hold num_of_lasers distinct
\* rising and falling edges, the extraction raises an error and returns no
\* segments built from repeated or arbitrary indices.  Stated for the traces
\* whose gradient has fewer than num_of_lasers positive entries or fewer
\* than num_of_lasers negative entries: they hold fewer maxima or minima
\* than pulses are asked for.
C7_TooFewEdgesRaises ==
    (UngatedDone /\ outcome = "returned") =>
        \E deriv \in {convolve_derive(raw_data, conv_std_dev)} :
            /\ Cardinality({p \in 1..Len(deriv) : deriv[p] > 0}) >= num_of_lasers
            /\ Cardinality({p \in 1..Len(deriv) : deriv[p] < 0}) >= num_of_lasers

\* C8: for an all-zero ungated trace (the gradient is identically zero) the
\* extraction raises an error; it never returns a result built from the
\* index 0 that argmax and argmin give on a constant array.
C8_AllZeroRaises ==
    (/\ NumbersDone
     /\ route = "ungated"
     /\ Len(raw_shape) = 1
     /\ \A p \in 1..Len(raw_data) : raw_data[p] = 0)
        => outcome = "raised"

\* C9: in ungated mode, segment i of the result equals
\* raw_data[rising_i : rising_i + L] element for element, rising_i the i-th
\* sorted rising index and L the uniform length.
C9_SegmentsAreSlices ==
    (UngatedDone /\ outcome = "returned") =>
        \A q \in 1..num_of_lasers :
            /\ Len(laser_arr[q]) = laser_length
            /\ \A j \in 0..(laser_length - 1) :
                  /\ rising_ind[q] + j < Len(raw_data)
                  /\ laser_arr[q][j + 1] = raw_data[rising_ind[q] + j + 1]

\* C10: in gated mode the edge detection is applied once, to the
\* element-wise sum of all rows (rising = index of the maximum of the
\* smoothed gradient, falling = index of its minimum), and segment i of the
\* result is row i of the raw data restricted to [rising, falling), with the
\* same pair for every row.
C10_GatedSegments ==
    GatedDone =>
        /\ outcome = "returned"
        /\ \E deriv \in {convolve_derive(timetrace_sum(raw_data), conv_std_dev)} :
              /\ rising_ind = <<ArgMax(deriv)>>
              /\ falling_ind = <<ArgMin(deriv)>>
              /\ laser_arr = [q \in 1..Len(raw_data) |->
                                 PySlice(raw_data[q], ArgMax(deriv), ArgMin(deriv))]

\* a step of a get_data_laserpulses call: from its entry to its return or
\* its exception (the steps at "done" are its caller's)
CallStep == pc # "done" /\ pc' # "idle"

\* C11: get_data_laserpulses has no side effects: at every step of a call,
\* returning or raising, the raw data array holds the entries get_data()
\* delivered, and is_counter_gated, num_of_lasers and conv_std_dev keep
\* their values; what the call writes to is its own gradient array.
C11_NoSideEffects ==
    [][CallStep =>
          /\ raw_data' = delivered'
          /\ is_counter_gated' = is_counter_gated
          /\ num_of_lasers' = num_of_lasers
          /\ conv_std_dev' = conv_std_dev]_vars

\* C11 witness: an ungated call has returned after it zeroed entries of its
\* gradient array, and the trace still holds its plateau
C11_Witness ==
    /\ UngatedDone
    /\ outcome = "returned"
    /\ \E p \in 1..Len(conv_deriv) :
          conv_deriv[p] = 0 /\ ConvolveDerive[raw_data][conv_std_dev][p] # 0
    /\ raw_data = delivered
    /\ \E p \in 1..Len(raw_data) : raw_data[p] > raw_data[1]

C14_RouteFollowsActivation ==
    route # "none" => (route = "gated" <=> gated_at_activation)

\* C14 witness: a call took the gated extraction although the counter,
\* gated at the latest activation, is ungated by now and delivered a 1-D
\* trace
C14_Witness ==
    /\ route = "gated"
    /\ gated_at_activation
    /\ ~fc_gated
    /\ Len(raw_shape) = 1

\* the number of entries of the call log that name the given call
CallsOf(name) == CountIn(call_log, name)

\* C16: a failure of get_data() or of the extraction is surfaced within
\* the same call: the call raises, it has called get_data() once and the
\* extraction at most once (not at all when get_data() failed), and it
\* returns no array in place of the result.
C16_FailureSurfaced ==
    /\ (pc = "done" /\ route = "none") => outcome = "raised"
    /\ (pc = "done" /\ outcome = "raised") =>
          /\ laser_arr = <<>>
          /\ CallsOf("get_data") = 1
          /\ CallsOf("_gated_extraction") + CallsOf("_ungated_extraction")
                = (IF route = "none" THEN 0 ELSE 1)

\* C16 witness: the ungated extraction failed at its last step, after the
\* detection loop had found every index, and the call raised
C16_Witness ==
    /\ pc = "done"
    /\ outcome = "raised"
    /\ route = "ungated"
    /\ Len(rising_ind) = num_of_lasers
    /\ call_log = <<"get_data", "_ungated_extraction">>

\* the raw data array has no entry
RawIsEmpty == \E axis \in 1..Len(raw_shape) : raw_shape[axis] = 0

\* the dimensions of the raw data array do not fit the extraction the call
\* took: 1-D into the gated one, 2-D into the ungated one
RawMismatchesRoute ==
    \/ route = "gated" /\ Len(raw_shape) = 1 /\ raw_dtype = "int"
    \/ route = "ungated" /\ Len(raw_shape) = 2

\* the rows of gated raw data have unequal lengths
RawIsRagged == raw_dtype = "object"

\* C17: the extraction raises an error and returns no result when the raw
\* data is empty, when its dimensions do not fit the gating mode (1-D in
\* gated mode, 2-D in ungated mode), or when the rows of gated data have
\* unequal lengths.
C17_InputShapeError ==
    (/\ pc = "done"
     /\ route # "none"
     /\ written = "none"
     /\ RawIsEmpty \/ RawMismatchesRoute \/ RawIsRagged)
        => outcome = "raised"

\* C13: over an activation followed by n calls of get_data_laserpulses,
\* is_gated() is called exactly once, by the activation and by no call, and
\* get_data() exactly n times, once per call; before the first activation
\* is_gated() is not called at all.
C13_DeviceCalls ==
    /\ is_gated_calls = activations
    /\ get_data_calls = calls_made

\* C13 witness: the second call after an activation has ended
C13_Witness ==
    /\ pc = "done"
    /\ activations = 1
    /\ calls_made = 2
    /\ is_gated_calls = 1
    /\ get_data_calls = 2

\* C15: two calls with the same raw data and the same configuration give
\* the same outcome, the same array or an exception both times, whatever
\* calls were made in between.
C15_Deterministic ==
    (/\ pc = "done"
     /\ written = "none"
     /\ remembered # <<>>
     /\ remembered[1].over
     /\ remembered[1].array = RawArray
     /\ remembered[1].attributes = config)
        => /\ remembered[1].outcome = outcome
           /\ remembered[1].result = laser_arr

\* C15 witness: a call on a trace of two pulses, asked for both, has ended
\* like the kept call on the same trace under the same configuration
C15_Witness ==
    /\ pc = "done"
    /\ written = "none"
    /\ remembered # <<>>
    /\ remembered[1].over
    /\ remembered[1].array = RawArray
    /\ remembered[1].attributes = config
    /\ num_of_lasers = 2
    /\ Len(rising_ind) = 2
    /\ raw_data = TrTwo

\* C18: two get_data_laserpulses calls on one module, each with its own
\* raw data and their steps interleaved in any order, end as each of them
\* ends when it runs on its own: neither reads what the other writes.
C18_InterleavedAsAlone ==
    /\ (pc = "done" /\ route # "none") =>
          \E alone \in {Extraction(RawArray, is_counter_gated,
                                    num_of_lasers, conv_std_dev)} :
              outcome = alone.outcome /\ laser_arr = alone.result
    /\ other.pc = "done" =>
          \E alone \in {Extraction(other.array, is_counter_gated,
                                    num_of_lasers, conv_std_dev)} :
              other.outcome = alone.outcome /\ other.result = alone.result

\* C18 witness: two ungated calls on different traces, asked for two
\* pulses each, have both returned after steps of one fell between steps
\* of the other
C18_Witness ==
    /\ pc = "done"
    /\ other.pc = "done"
    /\ other.overlapped
    /\ route = "ungated"
    /\ num_of_lasers = 2
    /\ outcome = "returned"
    /\ other.outcome = "returned"
    /\ Len(raw_shape) = 1
    /\ raw_data # other.array.values

\* two indices or lengths are about equal: within the default smoothing
\* width of each other
About(a, b) == a - b <= DefaultConvStdDev /\ b - a <= DefaultConvStdDev

\* C19: scenario B: on a 3000-sample trace with plateaus at [100, 300],
\* [1100, 1300] and [2100, 2300] on a flat baseline, with num_of_lasers = 3,
\* the ungated extraction returns three segments, the sorted rising indices
\* are about 100, 1100 and 2100, and the uniform length is about 200.
C19_ScenarioB ==
    UngatedDone =>
        /\ outcome = "returned"
        /\ Len(laser_arr) = 3
        /\ About(rising_ind[1], 100)
        /\ About(rising_ind[2], 1100)
        /\ About(rising_ind[3], 2100)
        /\ About(laser_length, 200)

\* the data of the call hold a value below 0
HasNegative == \E i \in DOMAIN fit.data : FloatLt(fit.data[i], 0)

\* C20: A call of estimate_baredoubleexponentialdecay on data with a value
\* below 0 returns the error code -1 and the params as they were given, the
\* linear-fit service not called; a call on data without a negative value
\* returns the code of the 1-D input check and params with lifetime set
\* from one linear fit.
C20_NegativeDataRejected ==
    (fit.pc = "done" /\ fit.estimator = "baredoubleexponentialdecay") =>
        IF HasNegative
        THEN /\ fit.outcome = "returned"
             /\ fit.error = -1
             /\ fit.params = fit.given
             /\ fit.linear_fits = 0
        ELSE /\ fit.outcome = "returned"
             /\ fit.error = fit.check
             /\ fit.linear_fits = 1
             /\ \E result \in make_linear_fit :
                   fit.params =
                       [fit.given EXCEPT !.lifetime = exp(result.offset)]

\* a returned call of one of the two estimators of line 613 and line 803
LogFitDone ==
    /\ fit.pc = "done"
    /\ fit.outcome = "returned"
    /\ fit.estimator \in
           {"doubleexponentialdecay", "stretchedexponentialdecay"}

\* C21: When estimate_doubleexponentialdecay or
\* estimate_stretchedexponentialdecay returns and the linear-fit service
\* answers on the points before the cutoff index i, lifetime is -1/slope and
\* amplitude the fitted offset; lifetime is the fallback
\* x_axis[i] - x_axis[0], and amplitude as given, only when the linear fit
\* fails.
C21_LinearFitSetsLifetime ==
    LogFitDone =>
        IF fit.service.ok
        THEN /\ fit.linear_fits = 1
             /\ fit.params.lifetime = NegInverse(fit.service.slope)
             /\ fit.params.amplitude = fit.service.offset
        ELSE /\ fit.params.lifetime = CutoffIndex(fit.data) * fit.step
             /\ fit.params.amplitude = fit.given.amplitude

\* C26: in ungated mode, once the rising and the falling indices are sorted,
\* every falling index is greater than the rising index it is paired with,
\* and the uniform length is positive; so the first falling edge does not
\* precede the first rising edge.
C26_FallingAfterRising ==
    UngatedDone =>
        /\ \A q \in 1..num_of_lasers : falling_ind[q] > rising_ind[q]
        /\ laser_length > 0

\* the target widgets of the axes of pos_dict hold its positions: the
\* position spinbox and the slider of each axis, and that axis' coordinate
\* of the first crosshair of every 2D scan that has the axis
TargetWidgetsAt(controls, docks, pos_dict) ==
    \A a \in DOMAIN pos_dict :
        /\ controls[a].pos_spinbox = pos_dict[a]
        /\ controls[a].slider = pos_dict[a]
        /\ \A axes \in DOMAIN docks : \A k \in 1..2 :
              axes[k] = a => docks[axes].crosshairs[1][k] = pos_dict[a]

\* C22: every sigSetScannerTarget the GUI emits carries id(self) as caller
\* id; scanner_target_updated with that caller id changes no spinbox, slider
\* or crosshair, and with any other caller id it sets every target widget
\* of the axes of the dict to the new position.
C22_OwnTargetUpdateIgnored ==
    [][/\ \A i \in DOMAIN emitted' :
             emitted'[i].signal = "sigSetScannerTarget"
                 => emitted'[i].caller = Self
       /\ event'.handler = "scanner_target_updated" =>
             IF event'.caller = Self
             THEN UNCHANGED <<axes_control_widgets, scan_2d_dockwidgets>>
             ELSE TargetWidgetsAt(axes_control_widgets',
                                  scan_2d_dockwidgets', event'.pos_dict)]_vars

\* an update of this GUI's own was ignored: a target widget holds another
\* position than the dict
C22_Witness ==
    /\ event.handler = "scanner_target_updated"
    /\ event.caller = Self
    /\ \E a \in DOMAIN event.pos_dict :
          axes_control_widgets[a].pos_spinbox # event.pos_dict[a]

\* C23: scanner_position_updated with caller id id(self), or while the true
\* scanner position is not shown, leaves every crosshair as it is and does
\* not read the scanner position from the logic; otherwise it moves the
\* second crosshair of every 2D scan that has an axis of the dict, changing
\* only the coordinate of that axis.
C23_PositionCrosshair ==
    [][event'.handler = "scanner_position_updated" =>
          IF event'.caller = Self \/ ~show_true_scanner_position
          THEN /\ UNCHANGED scan_2d_dockwidgets
               /\ "scanner_position" \notin logic_read'
          ELSE \A axes \in DOMAIN scan_2d_dockwidgets :
                  /\ scan_2d_dockwidgets'[axes].crosshairs[1] =
                         scan_2d_dockwidgets[axes].crosshairs[1]
                  /\ \A k \in 1..2 :
                        scan_2d_dockwidgets'[axes].crosshairs[2][k] =
                            IF axes[k] \in DOMAIN event'.pos_dict
                            THEN event'.pos_dict[axes[k]]
                            ELSE scan_2d_dockwidgets[axes].crosshairs[2][k]
      ]_vars

\* a position update of another module for one axis, the true position
\* shown: a 2D scan without that axis keeps its position crosshair, one
\* with the axis has it at the new position, away from the target crosshair
C23_Witness ==
    /\ event.handler = "scanner_position_updated"
    /\ event.caller # Self
    /\ show_true_scanner_position
    /\ \E a \in DOMAIN event.pos_dict :
          /\ \E axes \in DOMAIN scan_2d_dockwidgets :
                a \notin Values(axes)
          /\ \E axes \in DOMAIN scan_2d_dockwidgets :
                /\ axes[2] = a
                /\ scan_2d_dockwidgets[axes].crosshairs[2][2] =
                       event.pos_dict[a]
                /\ scan_2d_dockwidgets[axes].crosshairs[1][2] #
                       event.pos_dict[a]

\* C24: _add_scan_dockwidget for axes that have a dockwidget logs an error
\* and leaves both dicts as they are, no widget built; no axes tuple is a
\* key of both dicts.
C24_NoSecondDockwidget ==
    [][/\ (/\ event'.handler = "_add_scan_dockwidget"
           /\ event'.axes \in DOMAIN scan_1d_dockwidgets
                                  \cup DOMAIN scan_2d_dockwidgets)
              => /\ gui_outcome' = "logged"
                 /\ created' = 0
                 /\ UNCHANGED <<scan_1d_dockwidgets, scan_2d_dockwidgets>>
       /\ DOMAIN scan_1d_dockwidgets' \cap DOMAIN scan_2d_dockwidgets' = {}
      ]_vars

\* an add for the axes of a 1D dockwidget whose button is checked: the
\* widget is still the checked one
C24_Witness ==
    /\ event.handler = "_add_scan_dockwidget"
    /\ gui_outcome = "logged"
    /\ Len(event.axes) = 1
    /\ scan_1d_dockwidgets[event.axes].checked

\* C25: on_deactivate after on_activate, on a scanner of two or more axes,
\* ends without an error with the four widget dicts empty and every signal
\* disconnected; after a following on_activate every signal has exactly one
\* connection.
C25_DeactivateReverses ==
    /\ event.handler = "on_deactivate" =>
          /\ gui_outcome = "ok"
          /\ scan_1d_dockwidgets = <<>>
          /\ scan_2d_dockwidgets = <<>>
          /\ axes_control_widgets = <<>>
          /\ optimizer_settings_axes_widgets = {}
          /\ \A s \in DOMAIN connections : connections[s] = 0
    /\ event.handler = "on_activate" =>
          \A s \in DOMAIN connections : connections[s] = 1

\* C27: when the user finishes an edit in the min-range, max-range or
\* resolution spinbox of an axis, the GUI emits sigScanSettingsChanged once,
\* with a dict whose only key is that axis and whose values are those of
\* that axis' own spinboxes.
C27_OwnAxisSettings ==
    event.handler = "editingFinished" =>
        /\ Len(emitted) = 1
        /\ emitted[1].signal = "sigScanSettingsChanged"
        /\ DOMAIN emitted[1].args = {event.axis}
        /\ emitted[1].args[event.axis] =
               IF event.widget = "res_spinbox"
               THEN axes_control_widgets[event.axis].res_spinbox
               ELSE <<axes_control_widgets[event.axis].min_spinbox,
                      axes_control_widgets[event.axis].max_spinbox>>

\* the toggle buttons of all scan dockwidgets, 1D and 2D
Buttons ==
    [axes \in DOMAIN scan_1d_dockwidgets \cup DOMAIN scan_2d_dockwidgets |->
        IF Len(axes) = 1 THEN scan_1d_dockwidgets[axes]
                         ELSE scan_2d_dockwidgets[axes]]

\* C28: after a scan_state_updated event with is_running False every scan
\* toggle button is enabled and unchecked; after one with is_running True
\* for axes X, the button of X is checked and every other one is disabled.
C28_ToggleButtons ==
    event.handler = "scan_state_updated" =>
        \A axes \in DOMAIN Buttons :
            IF ~event.is_running
            THEN Buttons[axes].enabled /\ ~Buttons[axes].checked
            ELSE IF axes = event.scan_axes
                 THEN Buttons[axes].checked
                 ELSE ~Buttons[axes].enabled

====
